---- MODULE Spec2Model ----
(***************************************************************************)
(* State-machine model of the provisioning core of word-to-site-ai:        *)
(*   - DomainWorkflow.execute / executeWithContexts (src/domain-workflow)  *)
(*   - the AI proxy gateway (proxy-auth middleware, ProxyService, routes)  *)
(*   - the chat editor sessions (EditorService)                            *)
(* Each subsystem has its own specification (SpecWorkflow, SpecProxy,      *)
(* SpecEditor); the variables of the other subsystems stay at their        *)
(* initial value.                                                          *)
(***************************************************************************)
EXTENDS Integers, Sequences, FiniteSets, TLC

VARIABLES
  config,      \* process configuration (config.js), fixed for a process
  wf,          \* workflow runs: run id -> the run's result object and position
  streams,     \* SSE responses of the provisioning stream: run id -> frames written
  clock,       \* the wall clock read by new Date(): a position in Instants
  tiers,       \* table proxy_subscription_tiers: tier -> row
  sites,       \* table proxy_sites: the rows, in order of insertion (id = index)
  requestLog,  \* table proxy_request_log: the set of rows
  pendingLogs, \* log inserts issued by logRequest and not yet executed
  month,       \* the calendar month of the database clock
  reqs,        \* proxy requests: request id -> position and request-local values
  editorSessions,  \* table editor_sessions: rows in order of insertion (id = index)
  editorMessages,  \* table editor_messages: rows in created_at order
  creates,     \* createSession calls: call id -> position and locals
  sends,       \* sendMessage calls: call id -> position and locals
  dns,         \* a Cloudflare zone's DNS records and the setARecords calls made on it
  admin,       \* updateTier / updateSiteStatus calls in progress: call id -> position and locals
  http,        \* the configured admin secret and the admin requests answered so far
  onboarding,  \* onboarding runs: run id -> position, inputs so far, events and result
  voice        \* one voice interview session, its requests in flight and the questions sent

workflowVars == <<config, wf, streams, clock>>
proxyVars == <<tiers, sites, requestLog, pendingLogs, month, reqs>>
editorVars == <<editorSessions, editorMessages, creates, sends>>
serviceVars == <<dns, admin, http, onboarding, voice>>
vars == <<config, wf, streams, clock, tiers, sites, requestLog, pendingLogs, month, reqs,
          editorSessions, editorMessages, creates, sends, dns, admin, http, onboarding, voice>>

(***************************************************************************)
(* Generic helpers                                                         *)
(***************************************************************************)
IsPrefix(s, t) == Len(s) <= Len(t) /\ \A i \in 1..Len(s) : s[i] = t[i]

RECURSIVE SeqFilter(_, _)
SeqFilter(s, S) ==
  IF s = <<>> THEN <<>>
  ELSE IF Head(s) \in S THEN <<Head(s)>> \o SeqFilter(Tail(s), S)
       ELSE SeqFilter(Tail(s), S)

Range(s) == {s[i] : i \in 1..Len(s)}

(***************************************************************************)
(* DomainWorkflow                                                          *)
(***************************************************************************)
Runs == {"run1", "run2"}

\* the runs started by direct callers of execute / executeWithContexts
WorkflowRuns == {"run1"}

\* error.message of the errors the workflow can catch
ConfigError      == "Domain configuration validation failed"
NamecheapError   == "Namecheap API Error"
UnavailableError == "Domain is not available for registration. Please try another domain."
\* Faulty variant of PremiumError: the price is left out of the text
PremiumErrorNoPrice(premiumPrice) ==
  "Domain is not available for registration. It's a premium domain"

PremiumError(premiumPrice) ==
  "Domain is not available for registration. It's a premium domain priced at $" \o premiumPrice
InstaWPError     == "InstaWP API Error"
NotReadyError    == "Site did not become ready within 300000ms"
ARecordError     == "Failed to get A record IPs from InstaWP. The domain was mapped but DNS configuration cannot proceed."
CloudflareError  == "Cloudflare API Error"
TypeErrorMessage == "TypeError"
WPError          == "WP REST API error"

NoContext == [present |-> FALSE, branding |-> FALSE, plugins |-> "none", pages |-> "none"]
DeploymentContexts ==
  {NoContext} \cup
  [present : {TRUE}, branding : BOOLEAN, plugins : {"none", "one", "notIterable"}, pages : {"none"}]
ContentContexts ==
  {NoContext} \cup
  [present : {TRUE}, branding : {FALSE}, plugins : {"none"}, pages : {"none", "home", "home+about", "notIterable"}]

NoSite == [present |-> FALSE, wp_url |-> FALSE]
NoMapResponse ==
  [has_a_records |-> FALSE, a_records |-> <<>>, has_dns_records |-> FALSE, dns_records |-> <<>>]

\* result.cloudflare and result.nameserverInstructions before they are set
NoZone == [present |-> FALSE, nameservers |-> <<>>]
NoInstructions == [present |-> FALSE, nameservers |-> <<>>]

\* the locals of waitForSiteReady while it is not running
NoWait == [pc |-> "none", elapsed |-> 0, phase |-> "provisioning", probeAttempts |-> 0]

\* no availability has been fetched
NoAvailability ==
  [checked |-> FALSE, available |-> FALSE, premium |-> FALSE, premiumPrice |-> ""]

IdleRun ==
  [pc |-> "idle", method |-> "execute", registerNewDomain |-> FALSE,
   deploymentContext |-> NoContext, contentContext |-> NoContext,
   editorPreference |-> FALSE, hostKey |-> FALSE,
   success |-> FALSE, error |-> "", steps |-> <<>>, site |-> NoSite,
   cloudflare |-> NoZone, nameserverInstructions |-> NoInstructions, editor |-> "none",
   aRecordIps |-> <<>>, events |-> <<>>, calls |-> <<>>,
   mapResponse |-> NoMapResponse,
   wait |-> NoWait, effects |-> {}, zoneAnswers |-> <<>>, zoneAttempts |-> 0, availability |-> NoAvailability,
   failedAt |-> "none", deployResults |-> <<>>, contentResults |-> <<>>]

\* emitProgress: this.onProgress({step, timestamp, ...})
emitProgress(run, step) == [run EXCEPT !.events = Append(@, step)]

\* Faulty variant of PushStep: the record goes to the front of result.steps (unshift for push)
PushStepFront(run, step, ok, err) ==
  [run EXCEPT !.steps = <<[step |-> step, success |-> ok, error |-> err]>> \o @]

\* result.steps.push({step, success, error})
PushStep(run, step, ok, err) ==
  [run EXCEPT !.steps = Append(@, [step |-> step, success |-> ok, error |-> err])]

\* a provider operation is invoked
Invoke(run, op) == [run EXCEPT !.calls = Append(@, op)]

\* a provider operation has completed: its resource now exists at the provider
Effect(run, resource) == [run EXCEPT !.effects = @ \cup {resource}]

\* the stages of the pipeline, in the order execute and executeWithContexts
\* run them (WorkflowSteps, and the two context stages)
Stages ==
  <<"validating_config", "checking_domain", "registering_domain", "creating_site",
    "waiting_for_site", "mapping_domain", "creating_cloudflare_zone",
    "setting_dns_records", "updating_nameservers", "configuring_security",
    "applying_deployment", "generating_content", "selecting_editor">>

StageIndex(stage) == CHOOSE i \in 1..Len(Stages) : Stages[i] = stage

\* Faulty variant of CatchError: the error is recorded but the pipeline goes on with the next stage
CatchErrorFallThrough(run, msg, stage) ==
  [emitProgress(run, "error") EXCEPT !.error = msg, !.failedAt = stage,
                                     !.pc = Stages[StageIndex(stage) + 1]]

\* Faulty variant of CatchError: the site and the zone of the run are deleted again
CatchErrorRollback(run, msg, stage) ==
  [Invoke(emitProgress(run, "error"), "deleteSite")
     EXCEPT !.error = msg, !.failedAt = stage, !.pc = "done",
            !.effects = @ \ {"site", "zone"}]

\* the catch block of execute: emit error, result.error = error.message, return
CatchError(run, msg, stage) ==
  [emitProgress(run, "error") EXCEPT !.error = msg, !.failedAt = stage, !.pc = "done"]

\* GET /api/create-site-with-domain/stream: the response of a request that
\* has not arrived yet
NoStream ==
  [state |-> "none", registerNewDomain |-> FALSE, frames |-> <<>>,
   disconnected |-> FALSE, callsAtDisconnect |-> 0, pcAtDisconnect |-> "none"]

\* Faulty variant of subscriberOf: one response object shared by all runs
sharedSubscriber(r) == "run1"

\* the response object captured by the onProgress closure of run r
subscriberOf(r) == r

\* what new Date().toISOString() returns as time passes, in chronological
\* order (ISO strings of one length sort as the instants do)
Instants == <<"2026-01-01T00:00:00.000Z", "2026-01-01T00:00:10.000Z">>

\* the events emitted by run r in this step, as the frames onProgress writes
\* (JSON of {step, timestamp, ...}); a closed connection takes no frame
ProgressFrames(r) ==
  [i \in 1..(Len(wf'[r].events) - Len(wf[r].events)) |->
     [run |-> r, step |-> wf'[r].events[Len(wf[r].events) + i],
      timed |-> TRUE, timestamp |-> Instants[clock]]]

\* onProgress of the stream handler: res.write of every event of the step
StreamWrite(r) ==
  LET s == subscriberOf(r)
  IN IF streams[r].state = "open" /\ ~streams[s].disconnected
     THEN streams' = [streams EXCEPT ![s].frames = @ \o ProgressFrames(r)]
     ELSE UNCHANGED streams

\* validateDomainConfig: the list of errors (as a set)
validateDomainConfig(registerNewDomain) ==
  (IF config.cloudflare THEN {} ELSE {"CLOUDFLARE_* is required"})
  \cup (IF registerNewDomain /\ ~config.namecheap THEN {"NAMECHEAP_* is required"} ELSE {})
  \cup (IF registerNewDomain /\ ~config.contacts THEN {"DOMAIN_CONTACT_* is required"} ELSE {})

\* the constructor (this.instawpApiKey = options.instawpApiKey ||
\* config.instawp.apiKey) and execute, lines 56-81
ExecuteStart(r, m, key, reg, dc, cc, ep) ==
  /\ wf[r].pc = "idle"
  /\ m = "execute" => (dc = NoContext /\ cc = NoContext /\ ep = FALSE)
  /\ LET r0 == [wf[r] EXCEPT !.method = m, !.registerNewDomain = reg,
                             !.deploymentContext = dc, !.contentContext = cc,
                             !.editorPreference = ep,
                             !.hostKey = key \/ config.instawp]
         r1 == emitProgress(r0, "validating_config")
     IN wf' = [wf EXCEPT ![r] =
                 IF validateDomainConfig(reg) # {}
                 THEN CatchError(r1, ConfigError, "validating_config")
                 ELSE [PushStep(r1, "config_validated", TRUE, "")
                         EXCEPT !.pc = IF reg THEN "checking_domain" ELSE "creating_site"]]
  /\ StreamWrite(r)
  /\ UNCHANGED <<config, clock, proxyVars, editorVars, serviceVars>>

\* namecheap.checkDomain result shapes
\* the attributes of DomainCheckResult in the registrar's answer; an absent
\* PremiumRegistrationPrice reads as ""
DomainCheckResults ==
  {[Available |-> "true",  IsPremiumName |-> "false", PremiumRegistrationPrice |-> "0"],
   [Available |-> "false", IsPremiumName |-> "false", PremiumRegistrationPrice |-> "0"],
   [Available |-> "false", IsPremiumName |-> "true",  PremiumRegistrationPrice |-> "1250.00"],
   [Available |-> "false", IsPremiumName |-> "true",  PremiumRegistrationPrice |-> "89.99"],
   [Available |-> "false", IsPremiumName |-> "true",  PremiumRegistrationPrice |-> ""]}

\* NamecheapAPI.checkDomain: premiumPrice is PremiumRegistrationPrice || null,
\* and null reads "null" once interpolated
checkDomain(domainResult) ==
  [checked |-> TRUE,
   available |-> domainResult.Available = "true",
   premium |-> domainResult.IsPremiumName = "true",
   premiumPrice |-> IF domainResult.PremiumRegistrationPrice = "" THEN "null"
                    ELSE domainResult.PremiumRegistrationPrice]

Availabilities == {checkDomain(domainResult) : domainResult \in DomainCheckResults}

\* execute, lines 84-103: checking_domain
\* error.message of an exception thrown by the progress callback
SinkError == "progress sink failed"

\* domain-workflow.js, lines 37-43 and 259-273: emitProgress calls
\* this.onProgress with no try/catch.  The callback throws on the event that
\* opens the next stage, inside the try block; the catch block emits the
\* error event, and if the callback throws on that too the exception leaves
\* execute, which rejects.
EmitProgressThrows(r, onErrorToo) ==
  /\ wf[r].pc \in {Stages[i] : i \in 2..Len(Stages)}
  /\ LET r1 == emitProgress(wf[r], wf[r].pc)
     IN wf' = [wf EXCEPT ![r] =
                 IF onErrorToo
                 THEN [emitProgress(r1, "error") EXCEPT !.pc = "rejected"]
                 ELSE CatchError(r1, SinkError, wf[r].pc)]
  /\ StreamWrite(r)
  /\ UNCHANGED <<config, clock, proxyVars, editorVars, serviceVars>>

CheckingDomain(r, throws, availability) ==
  /\ wf[r].pc = "checking_domain"
  /\ LET r1 == Invoke(emitProgress(wf[r], "checking_domain"), "checkDomain")
         r2 == [PushStep(r1, "domain_checked", TRUE, "")
                  EXCEPT !.availability = availability]
     IN wf' = [wf EXCEPT ![r] =
                 IF throws THEN CatchError(r1, NamecheapError, "checking_domain")
                 ELSE IF ~availability.available
                 THEN CatchError(r2, IF availability.premium
                                     THEN PremiumError(availability.premiumPrice)
                                     ELSE UnavailableError, "checking_domain")
                 ELSE [r2 EXCEPT !.pc = "registering_domain"]]
  /\ StreamWrite(r)
  /\ UNCHANGED <<config, clock, proxyVars, editorVars, serviceVars>>

\* execute, lines 105-122: registering_domain
RegisteringDomain(r, throws) ==
  /\ wf[r].pc = "registering_domain"
  /\ LET r1 == Invoke(emitProgress(wf[r], "registering_domain"), "registerDomain")
     IN wf' = [wf EXCEPT ![r] =
                 IF throws THEN CatchError(r1, NamecheapError, "registering_domain")
                 ELSE [PushStep(Effect(r1, "domain"), "domain_registered", TRUE, "")
                         EXCEPT !.pc = "creating_site"]]
  /\ StreamWrite(r)
  /\ UNCHANGED <<config, clock, proxyVars, editorVars, serviceVars>>

\* execute, lines 125-140: creating_site; the host rejects a request that
\* carries no API key
CreatingSite(r, throws, hasUrl) ==
  /\ wf[r].pc = "creating_site"
  /\ ~wf[r].hostKey => throws
  /\ LET r1 == Invoke(emitProgress(wf[r], "creating_site"), "createSiteFromTemplate")
     IN wf' = [wf EXCEPT ![r] =
                 IF throws THEN CatchError(r1, InstaWPError, "creating_site")
                 ELSE [PushStep(Effect(r1, "site"), "site_created", TRUE, "")
                         EXCEPT !.site = [present |-> TRUE, wp_url |-> hasUrl],
                                !.pc = "waiting_for_site"]]
  /\ StreamWrite(r)
  /\ UNCHANGED <<config, clock, proxyVars, editorVars, serviceVars>>

\* execute, lines 142-149: waiting_for_site; result.site = {...site, ...readySite}
WaitingForSite(r, throws, readyHasUrl) ==
  /\ wf[r].pc = "waiting_for_site"
  /\ wf[r].wait.pc = "none"
  /\ LET r1 == Invoke(emitProgress(wf[r], "waiting_for_site"), "waitForSiteReady")
     IN wf' = [wf EXCEPT ![r] =
                 IF throws THEN CatchError(r1, NotReadyError, "waiting_for_site")
                 ELSE [PushStep(r1, "site_ready", TRUE, "")
                         EXCEPT !.site = [present |-> TRUE,
                                          wp_url |-> (r1.site.wp_url \/ readyHasUrl)],
                                !.pc = "mapping_domain"]]
  /\ StreamWrite(r)
  /\ UNCHANGED <<config, clock, proxyVars, editorVars, serviceVars>>

(***************************************************************************)
(* InstaWPAPI.waitForSiteReady (src/unnamed/part_004, lines 166-229), step *)
(* by step.  elapsed is Date.now() - startTime in milliseconds; a request  *)
(* takes one of RequestLatencies to settle, the pause between two polls    *)
(* takes CheckInterval.  wait.pc tells where the loop stands: "check" at   *)
(* the loop condition, "getSite" and "probe" with that request in flight,  *)
(* "sleep" in the pause, "thrown" once the function has thrown.            *)
(***************************************************************************)
MaxWaitTime == 300000
CheckInterval == 10000
MaxProbeAttempts == 6
RequestLatencies == {0, 5000}

\* what getSite can answer: a throw, or a site with a status and maybe a url
SiteAnswers == {"throws", "provisioning", "ready", "ready_with_url"}

\* Faulty variant of budgetLeft: the bound itself still counts as inside the budget
budgetLeftInclusive(elapsed) == elapsed <= MaxWaitTime

\* line 174: the loop condition, Date.now() - startTime < maxWaitTime
budgetLeft(elapsed) == elapsed < MaxWaitTime

\* execute, lines 147-149: waitForSiteReady has returned the site
WaitReturn(run, readyHasUrl) ==
  [PushStep(run, "site_ready", TRUE, "")
     EXCEPT !.site = [present |-> TRUE, wp_url |-> (run.site.wp_url \/ readyHasUrl)],
            !.wait = NoWait,
            !.pc = "mapping_domain"]

\* execute, lines 142-147, and waitForSiteReady, lines 166-172
WaitBegin(r) ==
  /\ wf[r].pc = "waiting_for_site"
  /\ wf[r].wait.pc = "none"
  /\ wf' = [wf EXCEPT ![r] =
              [Invoke(emitProgress(wf[r], "waiting_for_site"), "waitForSiteReady")
                 EXCEPT !.wait = [NoWait EXCEPT !.pc = "check"]]]
  /\ StreamWrite(r)
  /\ UNCHANGED <<config, clock, proxyVars, editorVars, serviceVars>>

\* lines 174 and 228: the loop condition; past the budget the function throws
\* and execute's catch block takes over
WaitCheck(r) ==
  /\ wf[r].pc = "waiting_for_site"
  /\ wf[r].wait.pc = "check"
  /\ wf' = [wf EXCEPT ![r] =
              IF budgetLeft(wf[r].wait.elapsed)
              THEN [wf[r] EXCEPT !.wait.pc = "getSite"]
              ELSE CatchError([wf[r] EXCEPT !.wait.pc = "thrown"],
                              NotReadyError, "waiting_for_site")]
  /\ StreamWrite(r)
  /\ UNCHANGED <<config, clock, proxyVars, editorVars, serviceVars>>

\* lines 175-186 and 215-222: getSite settles; a ready site without a url is
\* returned, one with a url is probed, any other status leads to the pause
WaitGetSite(r, latency, answer) ==
  /\ wf[r].pc = "waiting_for_site"
  /\ wf[r].wait.pc = "getSite"
  /\ LET r1 == [wf[r] EXCEPT !.wait.elapsed = @ + latency]
     IN wf' = [wf EXCEPT ![r] =
                 CASE answer = "throws" ->
                        CatchError([r1 EXCEPT !.wait.pc = "thrown"],
                                   InstaWPError, "waiting_for_site")
                   [] answer = "provisioning" -> [r1 EXCEPT !.wait.pc = "sleep"]
                   [] answer = "ready" -> WaitReturn(r1, FALSE)
                   [] answer = "ready_with_url" ->
                        [r1 EXCEPT !.wait.phase = "booting", !.wait.pc = "probe"]]
  /\ StreamWrite(r)
  /\ UNCHANGED <<config, clock, proxyVars, editorVars, serviceVars>>

\* lines 187-214: the HEAD probe settles (a status below 400, or not); after
\* maxProbeAttempts failed probes the site is returned all the same
WaitProbe(r, latency, reachable) ==
  /\ wf[r].pc = "waiting_for_site"
  /\ wf[r].wait.pc = "probe"
  /\ LET r1 == [wf[r] EXCEPT !.wait.elapsed = @ + latency]
         r2 == [r1 EXCEPT !.wait.probeAttempts = @ + 1]
     IN wf' = [wf EXCEPT ![r] =
                 IF reachable THEN WaitReturn(r1, TRUE)
                 ELSE IF r2.wait.probeAttempts >= MaxProbeAttempts
                 THEN WaitReturn(r2, TRUE)
                 ELSE [r2 EXCEPT !.wait.pc = "sleep"]]
  /\ StreamWrite(r)
  /\ UNCHANGED <<config, clock, proxyVars, editorVars, serviceVars>>

\* line 225: the pause of checkInterval milliseconds is over
WaitSleep(r) ==
  /\ wf[r].pc = "waiting_for_site"
  /\ wf[r].wait.pc = "sleep"
  /\ wf' = [wf EXCEPT ![r] = [wf[r] EXCEPT !.wait.elapsed = @ + CheckInterval,
                                           !.wait.pc = "check"]]
  /\ StreamWrite(r)
  /\ UNCHANGED <<config, clock, proxyVars, editorVars, serviceVars>>

\* the bodies the host can answer add-domain with (response.data)
MapResponses ==
  {[has_a_records |-> TRUE,  a_records |-> <<"1.2.3.4">>, has_dns_records |-> FALSE, dns_records |-> <<>>],
   [has_a_records |-> TRUE,  a_records |-> <<>>,          has_dns_records |-> FALSE, dns_records |-> <<>>],
   [has_a_records |-> FALSE, a_records |-> <<>>, has_dns_records |-> TRUE,
      dns_records |-> <<[type |-> "CNAME", value |-> "host.example"], [type |-> "A", value |-> "1.2.3.4"]>>],
   [has_a_records |-> FALSE, a_records |-> <<>>, has_dns_records |-> TRUE,
      dns_records |-> <<[type |-> "CNAME", value |-> "host.example"]>>],
   [has_a_records |-> FALSE, a_records |-> <<>>, has_dns_records |-> FALSE, dns_records |-> <<>>]}

IsARecord(record) == record.type = "A"

\* InstaWPAPI.extractARecords
extractARecords(response) ==
  IF response.has_a_records THEN response.a_records
  ELSE IF response.has_dns_records
  THEN LET as == SelectSeq(response.dns_records, IsARecord)
       IN [i \in 1..Len(as) |-> as[i].value]
  ELSE <<"123.123.123.123", "124.124.124.124">>

\* execute, lines 151-174: mapping_domain and the A-record check
MappingDomain(r, throws, response) ==
  /\ wf[r].pc = "mapping_domain"
  /\ LET r1 == Invoke(emitProgress(wf[r], "mapping_domain"), "mapDomain")
         aRecordIps == extractARecords(response)
         r2 == [PushStep(r1, "domain_mapped", TRUE, "")
                  EXCEPT !.aRecordIps = aRecordIps, !.mapResponse = response]
     IN wf' = [wf EXCEPT ![r] =
                 IF throws THEN CatchError(r1, InstaWPError, "mapping_domain")
                 ELSE IF Len(aRecordIps) = 0
                 THEN CatchError(r2, ARecordError, "mapping_domain")
                 ELSE [r2 EXCEPT !.pc = "creating_cloudflare_zone"]]
  /\ StreamWrite(r)
  /\ UNCHANGED <<config, clock, proxyVars, editorVars, serviceVars>>

\* the zones getOrCreateZone can return (the name servers the provider assigned)
Zones ==
  {[name_servers |-> <<"ada.ns.cloudflare.com", "bob.ns.cloudflare.com">>],
   [name_servers |-> <<"cody.ns.cloudflare.com", "dana.ns.cloudflare.com">>]}

\* what the provider would answer to successive attempts of one request: the
\* answer to the first attempt, to a second one, and so on
ProviderAnswers ==
  {<<"ok">>, <<"rejected">>, <<"timeout", "ok">>,
   <<"network", "rate_limited", "upstream_failure", "timeout", "ok">>}

\* CloudflareAPI.makeRequest: one axios call; whatever fails is rethrown
makeRequest(answers) == [attempts |-> 1, threw |-> Head(answers) # "ok"]

\* execute, lines 176-193: creating_cloudflare_zone; getOrCreateZone begins
\* with the zone lookup request
CreatingCloudflareZone(r, answers, zone) ==
  /\ wf[r].pc = "creating_cloudflare_zone"
  /\ LET r1 == [Invoke(emitProgress(wf[r], "creating_cloudflare_zone"), "getOrCreateZone")
                  EXCEPT !.zoneAnswers = answers,
                         !.zoneAttempts = makeRequest(answers).attempts]
     IN wf' = [wf EXCEPT ![r] =
                 IF makeRequest(answers).threw
                 THEN CatchError(r1, CloudflareError, "creating_cloudflare_zone")
                 ELSE [PushStep(Effect(r1, "zone"), "cloudflare_zone_created", TRUE, "")
                         EXCEPT !.cloudflare = [present |-> TRUE,
                                                nameservers |-> zone.name_servers],
                                !.pc = "setting_dns_records"]]
  /\ StreamWrite(r)
  /\ UNCHANGED <<config, clock, proxyVars, editorVars, serviceVars>>

\* Faulty variant of nameserverInstructions: Cloudflare's generic name servers
nameserverInstructionsGeneric(nameservers) ==
  [present |-> TRUE, nameservers |-> <<"ns1.cloudflare.com", "ns2.cloudflare.com">>]

\* execute, lines 219-225: {message, nameservers: zone.name_servers, note}
nameserverInstructions(nameservers) ==
  [present |-> TRUE, nameservers |-> nameservers]

\* execute, lines 195-226: setting_dns_records, then the registerNewDomain branch
SettingDnsRecords(r, throws) ==
  /\ wf[r].pc = "setting_dns_records"
  /\ LET r1 == Invoke(emitProgress(wf[r], "setting_dns_records"), "setARecords")
         r2 == PushStep(Effect(r1, "dns_records"), "dns_records_set", TRUE, "")
     IN wf' = [wf EXCEPT ![r] =
                 IF throws THEN CatchError(r1, CloudflareError, "setting_dns_records")
                 ELSE IF r2.registerNewDomain
                 THEN [r2 EXCEPT !.pc = "updating_nameservers"]
                 ELSE [r2 EXCEPT !.nameserverInstructions =
                                   nameserverInstructions(r2.cloudflare.nameservers),
                                 !.pc = "configuring_security"]]
  /\ StreamWrite(r)
  /\ UNCHANGED <<config, clock, proxyVars, editorVars, serviceVars>>

\* execute, lines 208-218: updating_nameservers
UpdatingNameservers(r, throws) ==
  /\ wf[r].pc = "updating_nameservers"
  /\ LET r1 == Invoke(emitProgress(wf[r], "updating_nameservers"), "setCustomNameservers")
     IN wf' = [wf EXCEPT ![r] =
                 IF throws THEN CatchError(r1, NamecheapError, "updating_nameservers")
                 ELSE [PushStep(r1, "nameservers_updated", TRUE, "")
                         EXCEPT !.pc = "configuring_security"]]
  /\ StreamWrite(r)
  /\ UNCHANGED <<config, clock, proxyVars, editorVars, serviceVars>>

\* executeWithContexts, lines 318-381: what runs after execute has returned
AfterContent(run) == IF run.editorPreference THEN "selecting_editor" ELSE "done"
AfterDeployment(run) ==
  IF run.contentContext.present THEN "generating_content" ELSE AfterContent(run)
AfterProvisioning(run) ==
  IF run.method = "execute" THEN "done"
  ELSE IF run.deploymentContext.present THEN "applying_deployment"
  ELSE AfterDeployment(run)

\* execute, lines 228-258: configuring_security (CloudflareAPI.configureSecurity
\* catches the failure of every setting and never throws), ssl, complete
ConfiguringSecurity(r) ==
  /\ wf[r].pc = "configuring_security"
  /\ LET r1 == Invoke(emitProgress(wf[r], "configuring_security"), "configureSecurity")
         r2 == PushStep(PushStep(r1, "security_configured", TRUE, ""), "ssl_pending", TRUE, "")
         r3 == [emitProgress(r2, "complete") EXCEPT !.success = TRUE]
     IN wf' = [wf EXCEPT ![r] = [r3 EXCEPT !.pc = AfterProvisioning(r3)]]
  /\ StreamWrite(r)
  /\ UNCHANGED <<config, clock, proxyVars, editorVars, serviceVars>>

\* applyDeploymentContext: the sub-results (`results`) of the subtasks it
\* attempts; every subtask's failure is caught inside it
deploymentSubtasks(context, settingsOk, faviconOk, pluginOk) ==
  (IF context.branding THEN <<[task |-> "settings", success |-> settingsOk]>> ELSE <<>>)
  \o <<[task |-> "customizer", success |-> faviconOk]>>
  \o (IF context.plugins = "one" THEN <<[task |-> "plugin", success |-> pluginOk]>> ELSE <<>>)

\* applyDeploymentContext throws only outside its try blocks: in
\* new WordPressService(site.url) when the site has no url, and in the
\* for-of over context.plugins when it is not iterable
applyDeploymentThrows(run) ==
  ~run.site.wp_url \/ run.deploymentContext.plugins = "notIterable"

\* Faulty variant of ApplyingDeployment: no try/catch around applyDeploymentContext, its error ends the run
ApplyingDeploymentFatal(r, settingsOk, faviconOk, pluginOk) ==
  /\ wf[r].pc = "applying_deployment"
  /\ LET r1 == Invoke(emitProgress(wf[r], "applying_deployment"), "applyDeploymentContext")
         r2 == [r1 EXCEPT !.deployResults =
                  IF ~r1.site.wp_url THEN <<>>
                  ELSE deploymentSubtasks(r1.deploymentContext, settingsOk, faviconOk, pluginOk)]
     IN wf' = [wf EXCEPT ![r] =
                 IF applyDeploymentThrows(r2)
                 THEN [r2 EXCEPT !.success = FALSE, !.error = TypeErrorMessage, !.pc = "done"]
                 ELSE [PushStep(r2, "deployment_applied", TRUE, "")
                         EXCEPT !.pc = AfterDeployment(r2)]]
  /\ StreamWrite(r)
  /\ UNCHANGED <<config, clock, proxyVars, editorVars, serviceVars>>

\* executeWithContexts, lines 328-352: applying_deployment
ApplyingDeployment(r, settingsOk, faviconOk, pluginOk) ==
  /\ wf[r].pc = "applying_deployment"
  /\ LET r1 == Invoke(emitProgress(wf[r], "applying_deployment"), "applyDeploymentContext")
         r2 == [r1 EXCEPT !.deployResults =
                  IF ~r1.site.wp_url THEN <<>>
                  ELSE deploymentSubtasks(r1.deploymentContext, settingsOk, faviconOk, pluginOk)]
         r3 == IF applyDeploymentThrows(r2)
               THEN PushStep(r2, "deployment_applied", FALSE, TypeErrorMessage)
               ELSE PushStep(r2, "deployment_applied", TRUE, "")
     IN wf' = [wf EXCEPT ![r] = [r3 EXCEPT !.pc = AfterDeployment(r3)]]
  /\ StreamWrite(r)
  /\ UNCHANGED <<config, clock, proxyVars, editorVars, serviceVars>>

\* context.pages || []
pagesToCreate(context) ==
  CASE context.pages = "home" -> <<"home">>
    [] context.pages = "home+about" -> <<"home", "about">>
    [] OTHER -> <<>>

\* generateContent throws only outside its try blocks: in
\* new WordPressService(site.url) and in the for-of over a non-iterable pages
generateContentThrows(run) ==
  ~run.site.wp_url \/ run.contentContext.pages = "notIterable"

\* generateContent, lines 527-563: results.pages, one entry per page definition
contentPages(context, pageOk) ==
  LET defs == pagesToCreate(context)
  IN [i \in 1..Len(defs) |-> [slug |-> defs[i], success |-> pageOk[i]]]

\* executeWithContexts, lines 354-378: generating_content
GeneratingContent(r, pageOk) ==
  /\ wf[r].pc = "generating_content"
  /\ LET r1 == Invoke(emitProgress(wf[r], "generating_content"), "generateContent")
         r2 == [r1 EXCEPT !.contentResults =
                  IF generateContentThrows(r1) THEN <<>>
                  ELSE contentPages(r1.contentContext, pageOk)]
         r3 == IF r2.site.wp_url THEN emitProgress(r2, "pushing_content") ELSE r2
         r4 == IF generateContentThrows(r3)
               THEN PushStep(r3, "content_generated", FALSE, TypeErrorMessage)
               ELSE PushStep(r3, "content_generated", TRUE, "")
     IN wf' = [wf EXCEPT ![r] = [r4 EXCEPT !.pc = AfterContent(r4)]]
  /\ StreamWrite(r)
  /\ UNCHANGED <<config, clock, proxyVars, editorVars, serviceVars>>

\* executeWithContexts, lines 380-398: editor selection, failure falls back
SelectingEditor(r, throws) ==
  /\ wf[r].pc = "selecting_editor"
  /\ wf' = [wf EXCEPT ![r] =
              [Invoke(wf[r], "selectEditor")
                 EXCEPT !.editor = IF throws THEN "advanced" ELSE "selected",
                        !.pc = "done"]]
  /\ StreamWrite(r)
  /\ UNCHANGED <<config, clock, proxyVars, editorVars, serviceVars>>

NextWorkflow ==
  \E r \in WorkflowRuns :
    \/ \E m \in {"execute", "executeWithContexts"}, key \in BOOLEAN, reg \in BOOLEAN,
          dc \in DeploymentContexts, cc \in ContentContexts, ep \in BOOLEAN :
         ExecuteStart(r, m, key, reg, dc, cc, ep)
    \/ \E throws \in BOOLEAN, a \in Availabilities : CheckingDomain(r, throws, a)
    \/ \E throws \in BOOLEAN : RegisteringDomain(r, throws)
    \/ \E throws \in BOOLEAN, hasUrl \in BOOLEAN : CreatingSite(r, throws, hasUrl)
    \/ \E throws \in BOOLEAN, hasUrl \in BOOLEAN : WaitingForSite(r, throws, hasUrl)
    \/ \E throws \in BOOLEAN, resp \in MapResponses : MappingDomain(r, throws, resp)
    \/ \E answers \in ProviderAnswers, zone \in Zones :
         CreatingCloudflareZone(r, answers, zone)
    \/ \E throws \in BOOLEAN : SettingDnsRecords(r, throws)
    \/ \E throws \in BOOLEAN : UpdatingNameservers(r, throws)
    \/ ConfiguringSecurity(r)
    \/ \E s \in BOOLEAN, f \in BOOLEAN, p \in BOOLEAN : ApplyingDeployment(r, s, f, p)
    \/ \E pageOk \in [{1, 2} -> BOOLEAN] : GeneratingContent(r, pageOk)
    \/ \E throws \in BOOLEAN : SelectingEditor(r, throws)


(***************************************************************************)
(* GET /api/create-site-with-domain/stream (server, lines 491-543): the    *)
(* provisioning run behind a Server-Sent-Events response                   *)
(***************************************************************************)
\* a frame the handler writes itself: {step: 'error', error} or {step: 'result', data}
HandlerFrame(r, step) == [run |-> r, step |-> step, timed |-> FALSE, timestamp |-> ""]

\* lines 491-527: headers, the checks of the query and of the configuration
\* (each failure writes one error frame and ends the response), then the
\* workflow is constructed with the effective API key
StreamOpen(r, domainGiven, keyGiven, reg) ==
  /\ streams[r].state = "none"
  /\ wf[r].pc = "idle"
  /\ IF ~domainGiven \/ ~(keyGiven \/ config.instawp) \/ validateDomainConfig(reg) # {}
     THEN streams' = [streams EXCEPT ![r] =
                        [@ EXCEPT !.state = "ended",
                                  !.frames = <<HandlerFrame(r, "error")>>]]
     ELSE streams' = [streams EXCEPT ![r] =
                        [@ EXCEPT !.state = "open", !.registerNewDomain = reg]]
  /\ UNCHANGED <<config, wf, clock, proxyVars, editorVars, serviceVars>>

\* lines 529-535: workflow.execute({domain, registerNewDomain, ...})
StreamExecute(r) ==
  /\ streams[r].state = "open"
  /\ ExecuteStart(r, "execute", TRUE, streams[r].registerNewDomain,
                  NoContext, NoContext, FALSE)

\* lines 537-543: execute has returned; the result frame and res.end()
StreamFinish(r) ==
  /\ streams[r].state = "open"
  /\ wf[r].pc = "done"
  /\ streams' = [streams EXCEPT ![r] =
                   [@ EXCEPT !.state = "ended",
                             !.frames = IF streams[r].disconnected THEN @
                                        ELSE Append(@, HandlerFrame(r, "result"))]]
  /\ UNCHANGED <<config, wf, clock, proxyVars, editorVars, serviceVars>>

\* the client closes the connection; the handler registers no listener for it
ClientDisconnect(r) ==
  /\ streams[r].state = "open"
  /\ ~streams[r].disconnected
  /\ streams' = [streams EXCEPT ![r] =
                   [@ EXCEPT !.disconnected = TRUE,
                             !.callsAtDisconnect = Len(wf[r].calls),
                             !.pcAtDisconnect = wf[r].pc]]
  /\ UNCHANGED <<config, wf, clock, proxyVars, editorVars, serviceVars>>

\* time passes
Tick ==
  /\ clock < Len(Instants)
  /\ clock' = clock + 1
  /\ UNCHANGED <<config, wf, streams, proxyVars, editorVars, serviceVars>>

(***************************************************************************)
(* The AI proxy: src/src/db/migrations/002-ai-proxy.sql,                   *)
(* src/src/services/proxy-service.js, src/src/middleware/proxy-auth.js and *)
(* src/src/routes/proxy-routes.js.                                         *)
(*                                                                         *)
(* A request is handled in the steps its awaits cut it into: key lookup,   *)
(* quota check, model policy, upstream call.  Requests and admin calls of  *)
(* other connections run between these steps.  Database reads and the      *)
(* admin writes succeed; the log insert of logRequest is not awaited and   *)
(* may fail.                                                               *)
(***************************************************************************)
MaxMonth == 1
RequestIds == {"q1", "q2"}

Domains == {"shop.example"}
Statuses == {"active", "revoked"}

\* 002-ai-proxy.sql, lines 31-37: the seeded tiers (two of the four)
SeededTiers ==
  [free |-> [monthly_token_limit |-> 100000,
             allowed_models |-> {"gpt-4o-mini", "gemini-2.0-flash"}],
   pro  |-> [monthly_token_limit |-> 2000000,
             allowed_models |-> {"gpt-4o-mini", "gpt-4o", "gemini-2.0-flash",
                                 "gemini-1.5-pro", "claude-sonnet-4-6"}]]

\* 002-ai-proxy.sql, lines 10-12: column defaults of proxy_sites
DefaultMonthlyTokenLimit == 100000

\* proxy-service.js, lines 35-43: "wts_" followed by 40 alphanumerics; the
\* random body is identified by a serial number
KeyBodyLength == 40
generateApiKey(serial) ==
  [prefix |-> "wts_", len |-> KeyBodyLength, alnum |-> TRUE, serial |-> serial]

NoKey == [prefix |-> "", len |-> 0, alnum |-> TRUE, serial |-> 0]

\* The documented token format (spec 4.6): wts_ and 40 alphanumerics
KeyWellFormed(key) == key.prefix = "wts_" /\ key.len = 40 /\ key.alnum

\* Authorization headers a client may send
AuthHeaders ==
  {[scheme |-> "none", token |-> NoKey],
   [scheme |-> "Basic", token |-> generateApiKey(1)],
   [scheme |-> "Bearer", token |-> [generateApiKey(1) EXCEPT !.prefix = "sk_"]],
   [scheme |-> "Bearer", token |-> [generateApiKey(1) EXCEPT !.len = 12]],
   [scheme |-> "Bearer", token |-> [generateApiKey(1) EXCEPT !.alnum = FALSE]],
   [scheme |-> "Bearer", token |-> generateApiKey(0)],
   [scheme |-> "Bearer", token |-> generateApiKey(1)]}

NoRow ==
  [present |-> FALSE, id |-> 0, domain |-> "", api_key |-> NoKey, status |-> "",
   subscription_tier |-> "", monthly_token_limit |-> 0]

\* proxy-service.js, lines 45-58: INSERT ... RETURNING *
registerSite(domain) ==
  [present |-> TRUE, id |-> Len(sites) + 1, domain |-> domain,
   api_key |-> generateApiKey(Len(sites) + 1), status |-> "active",
   subscription_tier |-> "free",
   monthly_token_limit |-> DefaultMonthlyTokenLimit]

\* Faulty variant of validateKey: the status filter is missing
validateKeyAnyStatus(apiKey) ==
  LET found == {i \in 1..Len(sites) : sites[i].api_key = apiKey}
  IN IF found = {} THEN NoRow ELSE sites[CHOOSE i \in found : TRUE]

\* proxy-service.js, lines 60-69: the row with this key and status 'active'
validateKey(apiKey) ==
  LET found == {i \in 1..Len(sites) :
                  sites[i].api_key = apiKey /\ sites[i].status = "active"}
  IN IF found = {} THEN NoRow ELSE sites[CHOOSE i \in found : TRUE]

RECURSIVE SumTokens(_)
SumTokens(rows) ==
  IF rows = {} THEN 0
  ELSE LET row == CHOOSE x \in rows : TRUE
       IN row.total_tokens + SumTokens(rows \ {row})

\* proxy-service.js, lines 126-138: tokens logged for the site since the
\* start of the current month
getMonthlyUsage(siteId) ==
  SumTokens({row \in requestLog : row.site_id = siteId /\ row.requested_at >= month})

\* Faulty variant of checkQuota: used <= limit for used < limit
checkQuotaAtOrBelow(siteId, monthlyLimit) ==
  LET used == getMonthlyUsage(siteId)
  IN [allowed |-> used <= monthlyLimit, used |-> used, limit |-> monthlyLimit,
      remaining |-> IF monthlyLimit - used > 0 THEN monthlyLimit - used ELSE 0]

\* proxy-service.js, lines 140-148
checkQuota(siteId, monthlyLimit) ==
  LET used == getMonthlyUsage(siteId)
  IN [allowed |-> used < monthlyLimit, used |-> used, limit |-> monthlyLimit,
      remaining |-> IF monthlyLimit - used > 0 THEN monthlyLimit - used ELSE 0]

\* proxy-service.js, lines 234-243: rows[0]?.allowed_models || []
getAllowedModels(tier) ==
  IF tier \in DOMAIN tiers THEN tiers[tier].allowed_models ELSE {}

\* proxy-service.js, lines 249-259: the provider is chosen by the model prefix
ProviderOf(model) ==
  CASE model \in {"gpt-4o-mini", "gpt-4o"} -> "openai"
    [] model \in {"gemini-2.0-flash", "gemini-1.5-pro"} -> "gemini"
    [] model \in {"claude-sonnet-4-6"} -> "anthropic"
    [] OTHER -> "unsupported"

\* Request bodies a client may send: model and messages
RequestBodies ==
  {[model |-> "gpt-4o-mini", messages |-> "array"],
   [model |-> "claude-sonnet-4-6", messages |-> "array"],
   [model |-> "llama-3", messages |-> "array"],
   [model |-> "", messages |-> "array"],
   [model |-> "gpt-4o-mini", messages |-> "missing"]}

\* usage.total_tokens reported by the provider
TokenUsages == {100000}

NewRequest ==
  [pc |-> "new", bearer |-> FALSE, token |-> NoKey,
   site |-> NoRow, keyStatusAtLookup |-> "", quota |-> [allowed |-> FALSE, used |-> 0, limit |-> 0, remaining |-> 0],
   limitAtCheck |-> 0, model |-> "", allowedAtCheck |-> {},
   status |-> 0, upstream |-> 0, upstreamStatus |-> 0, usage |-> 0]

\* proxy-service.js, lines 97-124: the insert is issued and not awaited
logRequest(q, siteId, tokens, status) ==
  pendingLogs' = pendingLogs \cup
    {[req |-> q, site_id |-> siteId, total_tokens |-> tokens,
      response_status |-> status]}

\* proxy-auth.js, lines 7-31: header check and key lookup
ProxyAuthLookup(q, header) ==
  /\ reqs[q].pc = "new"
  /\ LET stored == validateKeyAnyStatus(header.token)
         known == IF stored.present THEN stored.status ELSE "unknown"
         arrived == [reqs[q] EXCEPT !.bearer = header.scheme = "Bearer",
                                    !.token = header.token,
                                    !.keyStatusAtLookup = known]
     IN IF ~(header.scheme = "Bearer" /\ header.token.prefix = "wts_")
        THEN reqs' = [reqs EXCEPT ![q] = [arrived EXCEPT !.status = 401,
                                                         !.pc = "done"]]
        ELSE LET site == validateKey(header.token)
             IN IF ~site.present
                THEN reqs' = [reqs EXCEPT ![q] = [arrived EXCEPT !.status = 401,
                                                                 !.pc = "done"]]
                ELSE reqs' = [reqs EXCEPT ![q] = [arrived EXCEPT !.site = site,
                                                                 !.pc = "quota"]]
  /\ UNCHANGED <<workflowVars, editorVars, tiers, sites, requestLog, pendingLogs, month, serviceVars>>

\* proxy-auth.js, lines 33-48: quota check against the limit of the row read
\* by the lookup
ProxyAuthQuota(q) ==
  /\ reqs[q].pc = "quota"
  /\ LET site == reqs[q].site
         quota == checkQuota(site.id, site.monthly_token_limit)
         checked == [reqs[q] EXCEPT !.quota = quota,
                       !.limitAtCheck = sites[site.id].monthly_token_limit]
     IN IF ~quota.allowed
        THEN reqs' = [reqs EXCEPT ![q] = [checked EXCEPT !.status = 429,
                                                         !.pc = "done"]]
        ELSE reqs' = [reqs EXCEPT ![q] = [checked EXCEPT !.pc = "handler"]]
  /\ UNCHANGED <<workflowVars, editorVars, tiers, sites, requestLog, pendingLogs, month, serviceVars>>

\* proxy-routes.js, lines 194-216: body validation and model policy
ChatCompletions(q, body) ==
  /\ reqs[q].pc = "handler"
  /\ IF body.model = "" \/ body.messages # "array"
     THEN reqs' = [reqs EXCEPT ![q] = [@ EXCEPT !.status = 400, !.pc = "done"]]
     ELSE LET allowedModels == getAllowedModels(reqs[q].site.subscription_tier)
              seen == [reqs[q] EXCEPT !.model = body.model,
                         !.allowedAtCheck =
                            getAllowedModels(sites[reqs[q].site.id].subscription_tier)]
          IN IF allowedModels # {} /\ body.model \notin allowedModels
             THEN reqs' = [reqs EXCEPT ![q] = [seen EXCEPT !.status = 403,
                                                           !.pc = "done"]]
             ELSE reqs' = [reqs EXCEPT ![q] = [seen EXCEPT !.pc = "forward"]]
  /\ UNCHANGED <<workflowVars, editorVars, tiers, sites, requestLog, pendingLogs, month, serviceVars>>

\* Outcomes of forwardToProvider for a supported model: a completion, an
\* upstream error, or no server-side provider key (thrown before the call)
ForwardOutcomes == {"completion", "upstream_error", "not_configured"}

\* the HTTP status of an upstream answer that is not ok (response.status)
UpstreamErrorStatuses == {429}

\* proxy-routes.js, lines 218-266: upstream call, log insert, response
ForwardToProvider(q, outcome, tokens) ==
  /\ reqs[q].pc = "forward"
  /\ LET site == reqs[q].site
         supported == ProviderOf(reqs[q].model) # "unsupported"
         called == supported /\ outcome # "not_configured"
         ok == supported /\ outcome = "completion"
     IN /\ logRequest(q, site.id, IF ok THEN tokens ELSE 0,
                      IF ok THEN 200 ELSE 502)
        /\ reqs' = [reqs EXCEPT ![q] =
                      [@ EXCEPT !.upstream = IF called THEN @ + 1 ELSE @,
                                !.upstreamStatus =
                                   IF called /\ ~ok
                                   THEN CHOOSE st \in UpstreamErrorStatuses : TRUE
                                   ELSE @,
                                !.status = IF ok THEN 200 ELSE 502,
                                !.usage = IF ok THEN tokens ELSE 0,
                                !.pc = "done"]]
  /\ UNCHANGED <<workflowVars, editorVars, tiers, sites, requestLog, month, serviceVars>>

\* The insert issued by logRequest executes: requested_at DEFAULT NOW()
LogInsert(row) ==
  /\ row \in pendingLogs
  /\ pendingLogs' = pendingLogs \ {row}
  /\ requestLog' = requestLog \cup
       {[req |-> row.req, site_id |-> row.site_id,
         total_tokens |-> row.total_tokens,
         response_status |-> row.response_status, requested_at |-> month]}
  /\ UNCHANGED <<workflowVars, editorVars, tiers, sites, month, reqs, serviceVars>>

\* proxy-service.js, lines 121-123: the insert fails and the error is swallowed
LogInsertFails(row) ==
  /\ row \in pendingLogs
  /\ pendingLogs' = pendingLogs \ {row}
  /\ UNCHANGED <<workflowVars, editorVars, tiers, sites, requestLog, month, reqs, serviceVars>>

\* POST /admin/sites -> registerSite; a duplicate domain violates UNIQUE
\* Faulty variant of RegisterSite: the UNIQUE constraint on domain is missing
RegisterSiteAgain(domain) ==
  /\ sites' = Append(sites, registerSite(domain))
  /\ UNCHANGED <<workflowVars, editorVars, tiers, requestLog, pendingLogs, month, reqs, serviceVars>>

RegisterSite(domain) ==
  /\ \A i \in 1..Len(sites) : sites[i].domain # domain
  /\ sites' = Append(sites, registerSite(domain))
  /\ UNCHANGED <<workflowVars, editorVars, tiers, requestLog, pendingLogs, month, reqs, serviceVars>>

\* proxy-service.js, lines 189-213: an unknown tier throws, otherwise the
\* tier's limit is copied to the site
UpdateTier(id, tier) ==
  /\ id \in 1..Len(sites)
  /\ tier \in DOMAIN tiers
  /\ sites' = [sites EXCEPT ![id] =
                 [@ EXCEPT !.subscription_tier = tier,
                           !.monthly_token_limit = tiers[tier].monthly_token_limit]]
  /\ UNCHANGED <<workflowVars, editorVars, tiers, requestLog, pendingLogs, month, reqs, serviceVars>>

\* proxy-service.js, lines 215-232
UpdateSiteStatus(id, status) ==
  /\ id \in 1..Len(sites)
  /\ sites' = [sites EXCEPT ![id] = [@ EXCEPT !.status = status]]
  /\ UNCHANGED <<workflowVars, editorVars, tiers, requestLog, pendingLogs, month, reqs, serviceVars>>

(***************************************************************************)
(* updateTier and updateSiteStatus statement by statement: calls of         *)
(* different connections run between the SELECT and the UPDATE of           *)
(* updateTier.  Every statement is atomic in the database.                  *)
(***************************************************************************)
AdminCalls == {"a1", "a2", "a3"}

IdleAdminCall ==
  [pc |-> "idle", op |-> "", id |-> 0, tier |-> "", status |-> "",
   limit |-> 0, applied |-> FALSE]

\* the tiers a caller may name; platinum is not in the table
TierNames == {"free", "pro", "platinum"}

\* updateTier(siteId, tier) or updateSiteStatus(siteId, status) is called
AdminCall(a, op, id, tier, status) ==
  /\ admin[a].pc = "idle"
  /\ admin' = [admin EXCEPT ![a] =
                 [IdleAdminCall EXCEPT !.op = op, !.id = id,
                    !.tier = IF op = "updateTier" THEN tier ELSE "",
                    !.status = IF op = "updateSiteStatus" THEN status ELSE "",
                    !.pc = IF op = "updateTier" THEN "lookup" ELSE "update"]]
  /\ UNCHANGED <<workflowVars, proxyVars, editorVars, dns, http, onboarding, voice>>

\* proxy-service.js, lines 192-201: SELECT of the tier; an unknown tier throws
UpdateTierLookup(a) ==
  /\ admin[a].pc = "lookup"
  /\ admin' = [admin EXCEPT ![a] =
                 IF admin[a].tier \in DOMAIN tiers
                 THEN [@ EXCEPT !.limit = tiers[admin[a].tier].monthly_token_limit,
                                !.pc = "update"]
                 ELSE [@ EXCEPT !.pc = "thrown"]]
  /\ UNCHANGED <<workflowVars, proxyVars, editorVars, dns, http, onboarding, voice>>

\* Faulty variant of UpdateTierWrite: the limit column is left as it was
UpdateTierWriteTierOnly(a) ==
  /\ admin[a].pc = "update" /\ admin[a].op = "updateTier"
  /\ admin' = [admin EXCEPT ![a] = [@ EXCEPT !.pc = "done",
                                              !.applied = admin[a].id \in 1..Len(sites)]]
  /\ sites' = IF admin[a].id \in 1..Len(sites)
              THEN [sites EXCEPT ![admin[a].id] =
                      [@ EXCEPT !.subscription_tier = admin[a].tier]]
              ELSE sites
  /\ UNCHANGED <<workflowVars, editorVars, tiers, requestLog, pendingLogs, month, reqs, dns, http, onboarding, voice>>

\* proxy-service.js, lines 205-212: UPDATE ... SET subscription_tier = $2,
\* monthly_token_limit = $3 WHERE id = $1; no row, no change
UpdateTierWrite(a) ==
  /\ admin[a].pc = "update" /\ admin[a].op = "updateTier"
  /\ admin' = [admin EXCEPT ![a] = [@ EXCEPT !.pc = "done",
                                              !.applied = admin[a].id \in 1..Len(sites)]]
  /\ sites' = IF admin[a].id \in 1..Len(sites)
              THEN [sites EXCEPT ![admin[a].id] =
                      [@ EXCEPT !.subscription_tier = admin[a].tier,
                                !.monthly_token_limit = admin[a].limit]]
              ELSE sites
  /\ UNCHANGED <<workflowVars, editorVars, tiers, requestLog, pendingLogs, month, reqs, dns, http, onboarding, voice>>

\* proxy-service.js, lines 223-229: UPDATE ... SET status = $2 WHERE id = $1
UpdateSiteStatusWrite(a) ==
  /\ admin[a].pc = "update" /\ admin[a].op = "updateSiteStatus"
  /\ admin' = [admin EXCEPT ![a] = [@ EXCEPT !.pc = "done",
                                              !.applied = admin[a].id \in 1..Len(sites)]]
  /\ sites' = IF admin[a].id \in 1..Len(sites)
              THEN [sites EXCEPT ![admin[a].id] = [@ EXCEPT !.status = admin[a].status]]
              ELSE sites
  /\ UNCHANGED <<workflowVars, editorVars, tiers, requestLog, pendingLogs, month, reqs, dns, http, onboarding, voice>>

(***************************************************************************)
(* The admin endpoints of the proxy router, each behind adminAuth.          *)
(***************************************************************************)
AdminRequests == {"h1", "h2"}

AdminRoutes ==
  {"register-site", "push-key", "sites", "usage", "requests", "patch"}

\* part_003, line 72: PROXY_ADMIN_SECRET || ''
AdminSecrets == {"", "s3cret"}

\* req.headers['x-proxy-admin-secret']: undefined when the header is not sent
Undefined == "<undefined>"
HeaderValues == {Undefined, "", "s3cret", "S3CRET"}

NoAnswer ==
  [route |-> "", header |-> Undefined, status |-> 0, data |-> FALSE,
   changed |-> FALSE, pushed |-> FALSE]

\* Faulty variant of adminAuth: the configured secret is not tested for emptiness
adminAuthHeaderOnly(secret) == secret = http.adminSecret

\* proxy-routes.js, lines 18-26: TRUE when next() is called
adminAuth(secret) ==
  ~(http.adminSecret = "" \/ secret # http.adminSecret)

\* updateTier, then updateSiteStatus, as the PATCH handler calls them
PatchedRow(row, tier, status) ==
  LET tiered == IF tier = "" THEN row
                ELSE [row EXCEPT !.subscription_tier = tier,
                                 !.monthly_token_limit = tiers[tier].monthly_token_limit]
  IN IF status = "" THEN tiered ELSE [tiered EXCEPT !.status = status]

\* proxy-routes.js, lines 41-187: the handler behind adminAuth; the answer's
\* status, whether it carries site data, and the rows after it
AdminHandler(route, domain, id, tier, status, pushOk) ==
  LET known == id \in 1..Len(sites)
      byDomain == {i \in 1..Len(sites) : sites[i].domain = domain}
  IN CASE route = "register-site" ->
            IF domain = "" THEN [status |-> 400, data |-> FALSE, sites |-> sites, pushed |-> FALSE]
            ELSE IF byDomain # {} THEN [status |-> 409, data |-> FALSE, sites |-> sites, pushed |-> FALSE]
            ELSE [status |-> 200, data |-> TRUE, sites |-> Append(sites, registerSite(domain)),
                  pushed |-> FALSE]
       [] route = "push-key" ->
            IF domain = "" THEN [status |-> 400, data |-> FALSE, sites |-> sites, pushed |-> FALSE]
            ELSE IF byDomain = {} THEN [status |-> 404, data |-> FALSE, sites |-> sites, pushed |-> FALSE]
            ELSE IF ~pushOk THEN [status |-> 502, data |-> TRUE, sites |-> sites, pushed |-> FALSE]
            ELSE [status |-> 200, data |-> TRUE, sites |-> sites, pushed |-> TRUE]
       [] route = "sites" ->
            [status |-> 200, data |-> TRUE, sites |-> sites, pushed |-> FALSE]
       [] route = "usage" ->
            IF ~known THEN [status |-> 404, data |-> FALSE, sites |-> sites, pushed |-> FALSE]
            ELSE [status |-> 200, data |-> TRUE, sites |-> sites, pushed |-> FALSE]
       [] route = "requests" ->
            [status |-> 200, data |-> TRUE, sites |-> sites, pushed |-> FALSE]
       [] route = "patch" ->
            IF tier # "" /\ tier \notin DOMAIN tiers
            THEN [status |-> 500, data |-> FALSE, sites |-> sites, pushed |-> FALSE]
            ELSE IF ~known \/ (tier = "" /\ status = "")
            THEN [status |-> 404, data |-> FALSE, sites |-> sites, pushed |-> FALSE]
            ELSE [status |-> 200, data |-> TRUE,
                  sites |-> [sites EXCEPT ![id] = PatchedRow(sites[id], tier, status)],
                  pushed |-> FALSE]

\* An admin request with the given header is answered
AdminRequest(h, route, secret, domain, id, tier, status, pushOk) ==
  /\ http.handled[h].route = ""
  /\ LET answer == IF adminAuth(secret)
                   THEN AdminHandler(route, domain, id, tier, status, pushOk)
                   ELSE [status |-> 401, data |-> FALSE, sites |-> sites, pushed |-> FALSE]
     IN /\ sites' = answer.sites
        /\ http' = [http EXCEPT !.handled[h] =
                      [route |-> route, header |-> secret, status |-> answer.status,
                       data |-> answer.data, changed |-> answer.sites # sites,
                       pushed |-> answer.pushed]]
  /\ UNCHANGED <<workflowVars, editorVars, tiers, requestLog, pendingLogs, month, reqs, dns, admin, onboarding, voice>>

\* The database clock enters the next calendar month
MonthRollover ==
  /\ month < MaxMonth
  /\ month' = month + 1
  /\ UNCHANGED <<workflowVars, editorVars, tiers, sites, requestLog, pendingLogs, reqs, serviceVars>>

\* The tier table is database content: the migration's seed is
\* ON CONFLICT DO NOTHING, so a row edited by an operator is kept
TierTables ==
  {SeededTiers, [SeededTiers EXCEPT !.free.allowed_models = {}]}

(***************************************************************************)
(* The chat editor: src/src/services/editor-service.js and                 *)
(* src/src/db/migrations/005-editor-sessions.sql.                          *)
(*                                                                         *)
(* createSession and sendMessage are cut at their awaited statements;      *)
(* calls of other connections, deleteSession included, run in between.     *)
(***************************************************************************)
MaxBlocks == 2

Users == {"alice", "bob"}
CreateCalls == {"c1"}
SendCalls == {"m1", "m2"}

\* 004-user-sites.sql: wp_url, wp_username and wp_password are nullable
UserSites ==
  [blog  |-> [user_id |-> "alice", wp |-> TRUE],
   draft |-> [user_id |-> "alice", wp |-> FALSE],
   shop  |-> [user_id |-> "bob", wp |-> TRUE]]

\* Faulty variant of getSiteById: the row is selected by id alone
getSiteByIdOfAnyUser(siteId, userId) ==
  siteId \in DOMAIN UserSites

\* SiteService.getSiteById(siteId, userId): the site, if it is the user's
getSiteById(siteId, userId) ==
  siteId \in DOMAIN UserSites /\ UserSites[siteId].user_id = userId

\* The :::action blocks of an assistant reply, by their JSON content: an
\* object of a known type, an object of another type, the literal null, or
\* text that is not JSON
BlockKinds == {"update_page", "delete_page", "null", "not_json"}

Replies == UNION {[1..n -> BlockKinds] : n \in 0..MaxBlocks}

\* editor-service.js, lines 257-277: blocks that parse, in source order
parseActions(reply) ==
  LET parsed == SelectSeq([i \in 1..Len(reply) |-> [block |-> i, type |-> reply[i]]],
                          LAMBDA a : a.type # "not_json")
  IN parsed

\* editor-service.js, lines 279-293: known types call WordPress, others throw
KnownTypes == {"update_page", "update_settings", "create_page"}

LiveSession(id) == id \in 1..Len(editorSessions) /\ editorSessions[id].live

\* SELECT ... FROM editor_messages WHERE session_id = $1 ORDER BY created_at
MessagesOf(id) == SelectSeq(editorMessages, LAMBDA row : row.session_id = id)

\* the metadata column (JSONB, nullable) when no value is given
NoMetadata == [null |-> TRUE, changes |-> <<>>]

\* Faulty variant of metadataOf: an empty list is stored as {changes: []}
metadataOfAnyList(appliedChanges) == [null |-> FALSE, changes |-> appliedChanges]

\* editor-service.js, lines 187-192: appliedChanges.length > 0 ?
\* { changes: appliedChanges } : null
metadataOf(appliedChanges) ==
  IF Len(appliedChanges) > 0
  THEN [null |-> FALSE, changes |-> appliedChanges]
  ELSE NoMetadata

\* editor-service.js, lines 85-104: the user's session with its messages,
\* or null
getSession(sessionId, userId) ==
  IF LiveSession(sessionId) /\ editorSessions[sessionId].user_id = userId
  THEN [null |-> FALSE, id |-> sessionId, messages |-> MessagesOf(sessionId)]
  ELSE [null |-> TRUE, id |-> 0, messages |-> <<>>]

\* editor-service.js, lines 107-118: ids of the user's sessions of a site
listSessions(userId, siteId) ==
  {id \in 1..Len(editorSessions) :
     /\ LiveSession(id)
     /\ editorSessions[id].user_id = userId
     /\ editorSessions[id].site_id = siteId}

IdleCreate == [pc |-> "idle", user |-> "", site |-> "", session |-> 0]

IdleSend ==
  [pc |-> "idle", user |-> "", session |-> 0, wp |-> FALSE, reply |-> <<>>,
   next |-> 1, changes |-> <<>>]

\* editor-service.js, lines 44-57: site lookup and INSERT INTO editor_sessions
CreateSessionInsert(c, user, site) ==
  /\ creates[c].pc = "idle"
  /\ IF ~getSiteById(site, user)
     THEN /\ creates' = [creates EXCEPT ![c] =
                           [@ EXCEPT !.pc = "rejected", !.user = user, !.site = site]]
          /\ UNCHANGED editorSessions
     ELSE /\ editorSessions' = Append(editorSessions,
                                 [user_id |-> user, site_id |-> site, live |-> TRUE,
                                  deletedBy |-> ""])
          /\ creates' = [creates EXCEPT ![c] =
                           [pc |-> "system_message", user |-> user, site |-> site,
                            session |-> Len(editorSessions) + 1]]
  /\ UNCHANGED <<workflowVars, proxyVars, editorMessages, sends, serviceVars>>

\* editor-service.js, lines 59-83: optional wp.getPages, then INSERT of the
\* system message; the insert violates the foreign key if the session is gone
CreateSessionSystemMessage(c) ==
  /\ creates[c].pc = "system_message"
  /\ IF LiveSession(creates[c].session)
     THEN /\ editorMessages' = Append(editorMessages,
                [session_id |-> creates[c].session, role |-> "system",
                 metadata |-> NoMetadata, call |-> c])
          /\ creates' = [creates EXCEPT ![c] = [@ EXCEPT !.pc = "returned"]]
     ELSE /\ creates' = [creates EXCEPT ![c] = [@ EXCEPT !.pc = "rejected"]]
          /\ UNCHANGED editorMessages
  /\ UNCHANGED <<workflowVars, proxyVars, editorSessions, sends, serviceVars>>

\* editor-service.js, lines 120-141: session and site lookup, prior messages
SendMessageLoad(m, user, session) ==
  /\ sends[m].pc = "idle"
  /\ IF /\ LiveSession(session)
        /\ editorSessions[session].user_id = user
        /\ getSiteById(editorSessions[session].site_id, user)
     THEN sends' = [sends EXCEPT ![m] =
                      [@ EXCEPT !.pc = "save_user", !.user = user,
                                !.session = session,
                                !.wp = UserSites[editorSessions[session].site_id].wp]]
     ELSE sends' = [sends EXCEPT ![m] =
                      [@ EXCEPT !.pc = "rejected", !.user = user,
                                !.session = session]]
  /\ UNCHANGED <<workflowVars, proxyVars, editorSessions, editorMessages, creates, serviceVars>>

\* editor-service.js, lines 150-155: INSERT of the user message
SendMessageSaveUser(m) ==
  /\ sends[m].pc = "save_user"
  /\ IF LiveSession(sends[m].session)
     THEN /\ editorMessages' = Append(editorMessages,
                [session_id |-> sends[m].session, role |-> "user",
                 metadata |-> NoMetadata, call |-> m])
          /\ sends' = [sends EXCEPT ![m] = [@ EXCEPT !.pc = "chat"]]
     ELSE /\ sends' = [sends EXCEPT ![m] = [@ EXCEPT !.pc = "rejected"]]
          /\ UNCHANGED editorMessages
  /\ UNCHANGED <<workflowVars, proxyVars, editorSessions, creates, serviceVars>>

\* editor-service.js, lines 157-170: the model call and parseActions; the
\* actions are executed only if there are any and the site has credentials
SendMessageChat(m, throws, reply) ==
  /\ sends[m].pc = "chat"
  /\ IF throws
     THEN sends' = [sends EXCEPT ![m] = [@ EXCEPT !.pc = "rejected"]]
     ELSE sends' = [sends EXCEPT ![m] =
                      [@ EXCEPT !.reply = reply,
                                !.pc = IF Len(parseActions(reply)) > 0 /\ sends[m].wp
                                       THEN "execute" ELSE "save_assistant"]]
  /\ UNCHANGED <<workflowVars, proxyVars, editorSessions, editorMessages, creates, serviceVars>>

\* editor-service.js, lines 176-184 and 279-293: one turn of the for loop.
\* A null action makes executeAction throw and then the catch block throw
\* again on action.type, which rejects sendMessage.
SendMessageExecute(m, wpOk) ==
  /\ sends[m].pc = "execute"
  /\ LET actions == parseActions(sends[m].reply)
         action == actions[sends[m].next]
         succeeded == action.type \in KnownTypes /\ wpOk
         change == [block |-> action.block, type |-> action.type,
                    success |-> succeeded,
                    error |-> IF succeeded THEN ""
                              ELSE IF action.type \in KnownTypes THEN WPError
                              ELSE "Unknown action type"]
     IN IF action.type = "null"
        THEN sends' = [sends EXCEPT ![m] = [@ EXCEPT !.pc = "rejected"]]
        ELSE sends' = [sends EXCEPT ![m] =
                         [@ EXCEPT !.changes = Append(@, change),
                                   !.next = @ + 1,
                                   !.pc = IF sends[m].next = Len(actions)
                                          THEN "save_assistant" ELSE "execute"]]
  /\ UNCHANGED <<workflowVars, proxyVars, editorSessions, editorMessages, creates, serviceVars>>

\* editor-service.js, lines 187-204: INSERT of the assistant message with
\* metadata.changes, UPDATE of updated_at, return
SendMessageSaveAssistant(m) ==
  /\ sends[m].pc = "save_assistant"
  /\ IF LiveSession(sends[m].session)
     THEN /\ editorMessages' = Append(editorMessages,
                [session_id |-> sends[m].session, role |-> "assistant",
                 metadata |-> metadataOf(sends[m].changes), call |-> m])
          /\ sends' = [sends EXCEPT ![m] = [@ EXCEPT !.pc = "returned"]]
     ELSE /\ sends' = [sends EXCEPT ![m] = [@ EXCEPT !.pc = "rejected"]]
          /\ UNCHANGED editorMessages
  /\ UNCHANGED <<workflowVars, proxyVars, editorSessions, creates, serviceVars>>

\* editor-service.js, lines 207-215 and 005-editor-sessions.sql, line 15:
\* DELETE of the user's session, cascading to its messages
DeleteSession(session, user) ==
  /\ LiveSession(session)
  /\ editorSessions[session].user_id = user
  /\ editorSessions' = [editorSessions EXCEPT ![session] =
                          [@ EXCEPT !.live = FALSE, !.deletedBy = user]]
  /\ editorMessages' = SelectSeq(editorMessages, LAMBDA row : row.session_id # session)
  /\ UNCHANGED <<workflowVars, proxyVars, creates, sends, serviceVars>>

(***************************************************************************)
(* The onboarding workflow (src/src/onboarding-workflow.js): executeFlowA  *)
(* (copy an existing website) and executeFlowB (voice interview), cut at   *)
(* their three steps.  The scraper, the base site and Gemini are external: *)
(* their answers are chosen freely.  A context is modelled by the fields   *)
(* its validator reads and the flows can set.                              *)
(***************************************************************************)
OnboardingRuns == {"o1", "o2"}

\* the run followed when one request is served on its own
SingleRun == {"o1"}

\* part_005, lines 10 and 19: DEFAULTS.TEMPLATE_SLUG and DEFAULTS.TONE
TemplateSlug == "flexify"
DefaultTone == "professional"

\* part_005, lines 32-37
ContentTones == {"professional", "friendly", "casual", "formal"}

\* onboarding-workflow.js, lines 32-41
FallbackTemplateCatalog ==
  <<[slug |-> "flexify",
     industries |-> {"business", "agency", "consulting", "technology"}]>>

\* a catalog as the base site serves it
BaseSiteCatalog ==
  <<[slug |-> "shopper", industries |-> {"retail"}],
    [slug |-> "flexify",
     industries |-> {"business", "agency", "consulting", "technology"}]>>

\* baseSite.getSkins(): the request fails, answers something that is not an
\* array, or answers the skins
SkinsAnswers == {"unreachable", "not_an_array", "skins"}

\* onboarding-workflow.js, lines 62-86
loadTemplateCatalog(skins) ==
  IF skins = "skins" THEN BaseSiteCatalog ELSE FallbackTemplateCatalog

\* callGemini followed by JSON.parse: it throws, or yields an object whose
\* slug the model chose
GeminiAnswers ==
  {[ok |-> FALSE, slug |-> ""], [ok |-> TRUE, slug |-> "shopper"],
   [ok |-> TRUE, slug |-> ""]}

GeminiError == "Gemini request failed"
ScrapeError == "Failed to scrape URL"

NoMatch == [null |-> TRUE, threw |-> FALSE, slug |-> "", reason |-> ""]

\* part_011, lines 405-441: AIService.matchTemplate
matchTemplate(hasGemini, gemini) ==
  IF ~hasGemini
  THEN [null |-> FALSE, threw |-> FALSE, slug |-> TemplateSlug,
        reason |-> "Default template (AI matching unavailable)"]
  ELSE IF ~gemini.ok
  THEN [NoMatch EXCEPT !.threw = TRUE]
  ELSE [null |-> FALSE, threw |-> FALSE, slug |-> gemini.slug, reason |-> "ai"]

\* An industry text and the catalog keywords it includes
Industries ==
  {[text |-> "", mentions |-> {}],
   [text |-> "retail store", mentions |-> {"retail"}],
   [text |-> "law firm", mentions |-> {}]}

BusinessNames == {"", "Acme"}

\* brandColors of a brief, as the interview or the model gives them
BrandColorLists == {<<>>, <<"red", "#667eea">>}

\* the brief processInterview returns, from the model or from the answers
Briefs ==
  [hasBusinessInfo : BOOLEAN, name : BusinessNames,
   tone : {"", "friendly", "quirky"}, industry : Industries,
   brandColors : BrandColorLists]

NoBrief ==
  [hasBusinessInfo |-> FALSE, name |-> "", tone |-> "",
   industry |-> [text |-> "", mentions |-> {}], brandColors |-> <<>>]

\* onboarding-workflow.js, lines 480-492: the first template one of whose
\* industries the brief's industry includes, else the default
keywordMatch(brief, catalog) ==
  LET mentions == IF brief.hasBusinessInfo THEN brief.industry.mentions ELSE {}
      hits == {i \in 1..Len(catalog) : catalog[i].industries \cap mentions # {}}
      first == CHOOSE i \in hits : \A j \in hits : i <= j
  IN IF hits # {}
     THEN [null |-> FALSE, threw |-> FALSE, slug |-> catalog[first].slug,
           reason |-> "Matched based on industry: " \o brief.industry.text]
     ELSE [null |-> FALSE, threw |-> FALSE, slug |-> TemplateSlug,
           reason |-> "Default template (no industry match)"]

\* onboarding-workflow.js, lines 463-493
matchTemplateFromBrief(keys, brief, catalog, gemini) ==
  LET ai == matchTemplate(keys.gemini, gemini)
  IN IF (keys.gemini \/ keys.openai) /\ ~ai.threw
     THEN ai
     ELSE keywordMatch(brief, catalog)

\* the colour tokens /#([0-9A-Fa-f]{6}|[0-9A-Fa-f]{3})\b/g finds in a page
HtmlColorLists ==
  {<<>>, <<"#667eea">>, <<"#fff", "#abc">>, <<"#667eea", "#667EEA", "#abc">>,
   <<"#000000", "#667eea", "#764ba2">>}

\* String.prototype.toUpperCase on the tokens above
toUpperCase(color) ==
  CASE color = "#667eea" -> "#667EEA"
    [] color = "#764ba2" -> "#764BA2"
    [] color = "#abc" -> "#ABC"
    [] color = "#fff" -> "#FFF"
    [] OTHER -> color

RECURSIVE AddColors(_, _)
AddColors(colors, found) ==
  IF found = <<>> THEN colors
  ELSE LET color == toUpperCase(Head(found))
           kept == color \notin {"#FFFFFF", "#000000", "#FFF", "#000"}
                   /\ \A i \in 1..Len(colors) : colors[i] # color
       IN AddColors(IF kept THEN Append(colors, color) ELSE colors, Tail(found))

\* part_011, lines 938-952: upper-cased, without white and black, each once
extractColorsFromHtml(found) == AddColors(<<>>, found)

\* /^#[0-9A-Fa-f]{6}$/ on the colours of the model
IsHexColor(color) == color \in {"#667eea", "#667EEA", "#764ba2", "#764BA2"}

\* onboarding-workflow.js, line 384: brandColors.filter(regex)
hexColorsOf(brandColors) == SelectSeq(brandColors, IsHexColor)

ShortTitle == "Acme - widgets"
LongTitle ==
  "Acme Incorporated - the home of fine widgets, gadgets and gizmos since 1921"

\* String.length of the texts above
TextLength(text) ==
  CASE text = "" -> 0
    [] text = "Acme" -> 4
    [] text = ShortTitle -> 14
    [] text = LongTitle -> 75

\* what analyzeWebsite returns, from Gemini or from its fallback
Analyses == [name : BusinessNames, seoTitle : {"", ShortTitle, LongTitle}]

NoAnalysis == [name |-> "", seoTitle |-> ""]

NoDeploymentContext ==
  [null |-> TRUE, slug |-> "", primaryColor |-> "", secondaryColor |-> ""]

NoContentContext == [null |-> TRUE, name |-> "", tone |-> "", metaTitle |-> ""]

\* part_008, line 192
MaxMetaTitleLength == 60

\* part_009, lines 108-139
validateDeploymentContext(context) ==
  IF context.null THEN <<"Deployment context is required">>
  ELSE (IF context.slug = "" THEN <<"Template slug is required">> ELSE <<>>)
       \o (IF context.primaryColor # "" /\ ~IsHexColor(context.primaryColor)
           THEN <<"Primary color must be a valid hex color (e.g., #667eea)">>
           ELSE <<>>)
       \o (IF context.secondaryColor # "" /\ ~IsHexColor(context.secondaryColor)
           THEN <<"Secondary color must be a valid hex color">>
           ELSE <<>>)

\* part_008, lines 168-204
validateContentContext(context) ==
  IF context.null THEN <<"Content context is required">>
  ELSE (IF context.name = "" THEN <<"Business name is required">> ELSE <<>>)
       \o (IF context.tone # "" /\ context.tone \notin ContentTones
           THEN <<"Invalid tone: " \o context.tone
                  \o ". Must be one of: professional, friendly, casual, formal">>
           ELSE <<>>)
       \o (IF context.metaTitle # "" /\ TextLength(context.metaTitle) > MaxMetaTitleLength
           THEN <<"SEO meta title should be 60 characters or less">>
           ELSE <<>>)

\* Array.prototype.join(', ')
RECURSIVE JoinErrors(_)
JoinErrors(errors) ==
  IF errors = <<>> THEN ""
  ELSE IF Len(errors) = 1 THEN errors[1]
  ELSE errors[1] \o ", " \o JoinErrors(Tail(errors))

\* Faulty variant of contextsValid: the content validation is not consulted
contextsValidDeploymentOnly(deploymentContext, contentContext) ==
  validateDeploymentContext(deploymentContext) = <<>>

\* onboarding-workflow.js, lines 179-182 and 289-292
contextsValid(deploymentContext, contentContext) ==
  /\ validateDeploymentContext(deploymentContext) = <<>>
  /\ validateContentContext(contentContext) = <<>>

IdleOnboarding ==
  [pc |-> "idle", flow |-> "", keys |-> [gemini |-> FALSE, openai |-> FALSE],
   colors |-> <<>>, companyName |-> "", brief |-> NoBrief, analysis |-> NoAnalysis,
   briefFromModel |-> FALSE, skins |-> "", matcher |-> "", events |-> <<>>, steps |-> <<>>,
   success |-> FALSE, error |-> "", templateMatch |-> NoMatch,
   deploymentContext |-> NoDeploymentContext, contentContext |-> NoContentContext]

\* onboarding-workflow.js, lines 196-210 and 306-320: the catch block
CatchOnboardingError(run, message) ==
  [run EXCEPT !.events = Append(@, "error"), !.error = message, !.pc = "done"]

\* onboarding-workflow.js, lines 345-410
buildDeploymentContext(run) ==
  LET colors == IF run.flow = "copy" THEN run.colors
                ELSE hexColorsOf(run.brief.brandColors)
  IN [null |-> FALSE,
      slug |-> IF run.templateMatch.slug # "" THEN run.templateMatch.slug
               ELSE TemplateSlug,
      primaryColor |-> IF Len(colors) > 0 THEN colors[1] ELSE "",
      secondaryColor |-> IF Len(colors) > 1 THEN colors[2] ELSE ""]

\* onboarding-workflow.js, lines 418-456 with part_008, lines 211-318
buildContentContext(run) ==
  IF run.flow = "copy"
  THEN [null |-> FALSE, name |-> run.analysis.name, tone |-> DefaultTone,
        metaTitle |-> IF run.analysis.seoTitle # "" THEN run.analysis.seoTitle
                      ELSE run.analysis.name]
  ELSE [null |-> FALSE,
        name |-> IF run.brief.hasBusinessInfo THEN run.brief.name ELSE run.companyName,
        tone |-> IF run.brief.tone # "" THEN run.brief.tone ELSE DefaultTone,
        metaTitle |-> ""]

\* onboarding-workflow.js, lines 107-140: executeFlowA up to the scrape
ExecuteFlowA(o, keys, scrapeOk, colors) ==
  /\ onboarding[o].pc = "idle"
  /\ LET started == [IdleOnboarding EXCEPT !.flow = "copy", !.keys = keys,
                                           !.events = <<"analyzing_source">>]
     IN onboarding' = [onboarding EXCEPT ![o] =
          IF ~scrapeOk
          THEN CatchOnboardingError(started, ScrapeError)
          ELSE [started EXCEPT !.steps = <<"source_scraped">>, !.colors = colors,
                               !.pc = "matching"]]
  /\ UNCHANGED <<workflowVars, proxyVars, editorVars, dns, admin, http, voice>>

\* the interview answers the contexts read: companyName, industry and the
\* colours parseColors finds in the branding answer
InterviewAnswers ==
  [companyName : BusinessNames, industry : Industries, brandColors : BrandColorLists]

\* part_014, lines 250-275: the brief built from the answers alone
mapAnswersToBrief(answers) ==
  [hasBusinessInfo |-> TRUE,
   name |-> IF answers.companyName # "" THEN answers.companyName ELSE "My Business",
   tone |-> "professional", industry |-> answers.industry,
   brandColors |-> answers.brandColors]

\* buildBriefFromInterview: the request fails, or the model's JSON is parsed
OpenAiAnswers == {[ok |-> FALSE, brief |-> NoBrief]} \cup [ok : {TRUE}, brief : Briefs]

\* part_014, lines 215-243: the model's brief if there is a key and the call
\* succeeds, else the mapping of the answers
processInterview(hasOpenAI, answers, openai) ==
  IF hasOpenAI /\ openai.ok THEN openai.brief ELSE mapAnswersToBrief(answers)

\* onboarding-workflow.js, lines 219-251: executeFlowB up to the brief
ExecuteFlowB(o, keys, answers, openai) ==
  /\ onboarding[o].pc = "idle"
  /\ onboarding' = [onboarding EXCEPT ![o] =
       [IdleOnboarding EXCEPT !.flow = "voice", !.keys = keys,
                              !.events = <<"conducting_interview">>,
                              !.steps = <<"interview_processed">>,
                              !.companyName = answers.companyName,
                              !.brief = processInterview(keys.openai, answers, openai),
                              !.briefFromModel = keys.openai /\ openai.ok,
                              !.pc = "matching"]]
  /\ UNCHANGED <<workflowVars, proxyVars, editorVars, dns, admin, http, voice>>

\* onboarding-workflow.js, lines 143-147 and 254-258 with base-site-service.js,
\* lines 79-98: matching_template is emitted and loadTemplateCatalog calls
\* getSkins.  The workflow and its BaseSiteService are constructed for the
\* request, so templateCatalog is null and the cache is empty: getCached
\* starts a fetch, which is in flight until MatchingTemplate.
LoadingTemplateCatalog(o) ==
  /\ onboarding[o].pc = "matching"
  /\ onboarding' = [onboarding EXCEPT ![o] =
       [@ EXCEPT !.events = Append(@, "matching_template"), !.pc = "fetching"]]
  /\ UNCHANGED <<workflowVars, proxyVars, editorVars, dns, admin, http, voice>>

\* onboarding-workflow.js, lines 62-86, 148-156 and 259-267: the fetch
\* settles, then the analysis (copy) and the template match
MatchingTemplate(o, skins, analysis, gemini) ==
  /\ onboarding[o].pc = "fetching"
  /\ LET run == onboarding[o]
         catalog == loadTemplateCatalog(skins)
         match == IF run.flow = "copy"
                  THEN matchTemplate(run.keys.gemini, gemini)
                  ELSE matchTemplateFromBrief(run.keys, run.brief, catalog, gemini)
         emitted == [run EXCEPT !.skins = skins,
                                !.matcher = IF ~run.keys.gemini THEN "not_called"
                                            ELSE IF gemini.ok THEN "answered"
                                            ELSE "threw"]
     IN onboarding' = [onboarding EXCEPT ![o] =
          IF match.threw
          THEN CatchOnboardingError(emitted, GeminiError)
          ELSE [emitted EXCEPT !.templateMatch = match,
                               !.analysis = IF run.flow = "copy" THEN analysis
                                            ELSE NoAnalysis,
                               !.steps = Append(@, "template_matched"),
                               !.pc = "generating"]]
  /\ UNCHANGED <<workflowVars, proxyVars, editorVars, dns, admin, http, voice>>

\* onboarding-workflow.js, lines 158-195 and 269-305: both contexts are
\* built and validated; complete is emitted only past the validation
GeneratingContexts(o) ==
  /\ onboarding[o].pc = "generating"
  /\ LET run == onboarding[o]
         deploymentContext == buildDeploymentContext(run)
         contentContext == buildContentContext(run)
         built == [run EXCEPT !.events = Append(@, "generating_contexts"),
                              !.deploymentContext = deploymentContext,
                              !.contentContext = contentContext,
                              !.steps = Append(@, "contexts_generated")]
     IN onboarding' = [onboarding EXCEPT ![o] =
          IF ~contextsValid(deploymentContext, contentContext)
          THEN CatchOnboardingError(built,
                 JoinErrors(validateDeploymentContext(deploymentContext)
                            \o validateContentContext(contentContext)))
          ELSE [built EXCEPT !.events = Append(@, "complete"), !.success = TRUE,
                             !.pc = "done"]]
  /\ UNCHANGED <<workflowVars, proxyVars, editorVars, dns, admin, http, voice>>

(***************************************************************************)
(* CloudflareAPI.setARecords (src/src/namecheap.js, lines 376-417) on one  *)
(* zone.  A record of the zone is {id, type, name, content, proxied}; the  *)
(* provider gives every created record a fresh id.  A call lists the A     *)
(* records, deletes those of the apex and of www, then creates the new     *)
(* ones; a request that fails ends the call where it stands.               *)
(***************************************************************************)
DomainName == "shop.example"

\* the records a zone can hold before the first call (id = position)
StartingRecords ==
  <<[type |-> "A", name |-> "shop.example", content |-> "9.9.9.9", proxied |-> FALSE],
    [type |-> "A", name |-> "www.shop.example", content |-> "9.9.9.9", proxied |-> FALSE],
    [type |-> "A", name |-> "shop.example", content |-> "1.2.3.4", proxied |-> TRUE],
    [type |-> "A", name |-> "mail.shop.example", content |-> "9.9.9.9", proxied |-> FALSE],
    [type |-> "CNAME", name |-> "www.shop.example", content |-> "host.example",
     proxied |-> FALSE]>>

WithId(record, id) ==
  [id |-> id, type |-> record.type, name |-> record.name, content |-> record.content,
   proxied |-> record.proxied]

\* the address lists setARecords is called with
AddressLists == {<<"1.2.3.4">>, <<"1.2.3.4", "5.6.7.8">>, <<"1.2.3.4", "1.2.3.4">>}

\* the setARecords calls of one behaviour, in order
SetCalls == <<"first", "second">>

\* listDnsRecords(zoneId, type)
listDnsRecords(records, type) == {r \in records : r.type = type}

\* Faulty variant of IsOwnName: only the apex name is matched
IsApexName(name, domainName) == name \in {domainName, "@"}

\* lines 381-386: the names whose A records the call replaces
IsOwnName(name, domainName) ==
  name \in {domainName, "www." \o domainName, "@", "www"}

\* lines 380-386: toDelete
toDelete(records, domainName) ==
  {r \in listDnsRecords(records, "A") : IsOwnName(r.name, domainName)}

\* lines 392-414: the records to create, in order: one per address for the
\* apex, then one per address for www if requested
toCreate(domainName, ipAddresses, includeWww) ==
  [i \in 1..Len(ipAddresses) |->
     [type |-> "A", name |-> domainName, content |-> ipAddresses[i], proxied |-> TRUE]]
  \o (IF includeWww
      THEN [i \in 1..Len(ipAddresses) |->
              [type |-> "A", name |-> "www." \o domainName, content |-> ipAddresses[i],
               proxied |-> TRUE]]
      ELSE <<>>)

\* setARecords(zoneId, domainName, ipAddresses, includeWww): the records in
\* `deleted` have been deleted and the first `created` records created when
\* the call ends; it returns only if all of both were done
SetARecords(ipAddresses, includeWww, deleted, created) ==
  LET newRecords == toCreate(DomainName, ipAddresses, includeWww)
      doomed == toDelete(dns.records, DomainName)
      ok == deleted = doomed /\ created = Len(newRecords)
      records == (dns.records \ deleted)
                   \cup {WithId(newRecords[i], dns.nextId + i - 1) : i \in 1..created}
  IN /\ Len(dns.calls) < Len(SetCalls)
     /\ deleted \subseteq doomed
     /\ created \in 0..Len(newRecords)
     /\ deleted # doomed => created = 0
     /\ dns' = [records |-> records,
                nextId |-> dns.nextId + created,
                calls |-> Append(dns.calls,
                                 [ipAddresses |-> ipAddresses, includeWww |-> includeWww,
                                  returned |-> ok, records |-> records])]
     /\ UNCHANGED <<workflowVars, proxyVars, editorVars, admin, http, onboarding, voice>>

(***************************************************************************)
(* The voice interview over a WebSocket (src/src/websocket/voice-handler.js):*)
(* one session from handleConnection on.  handleMessage is async and is    *)
(* not awaited by the socket, so a message is handled while earlier        *)
(* handlers wait for the transcription or for the model's choice of the    *)
(* next question.  An answer carries, beside the id it is stored under,    *)
(* the id of the question last sent when its message arrived; of the       *)
(* messages sent, the session keeps the questionId of the last question.   *)
(***************************************************************************)
\* part_005, lines 56-67: ids of the first questions of INTERVIEW_QUESTIONS
InterviewQuestions == <<"email", "companyName", "industry", "services">>

\* voice-handler.js, lines 72-90: the session after handleConnection, which
\* sends the first question
ConnectedVoice ==
  [hasOpenAI |-> FALSE, answers |-> <<>>, currentQuestionIndex |-> 0,
   isRecording |-> FALSE, audioBuffer |-> FALSE, lastSent |-> InterviewQuestions[1],
   transcribing |-> {}, choosing |-> {}, completed |-> FALSE]

\* part_014, lines 93-97: the questions whose ids no answer carries
remainingQuestions(previousAnswers) ==
  SelectSeq(InterviewQuestions,
            LAMBDA id : \A i \in 1..Len(previousAnswers) :
                          previousAnswers[i].questionId # id)

\* voice-handler.js, lines 272-286: sendQuestion(ws, sessionId, index)
sendQuestion(session, index) ==
  IF index + 1 \in 1..Len(InterviewQuestions)
  THEN [session EXCEPT !.lastSent = InterviewQuestions[index + 1]]
  ELSE session

\* voice-handler.js, lines 347-370: handleCompleteInterview
handleCompleteInterview(session) == [session EXCEPT !.completed = TRUE]

\* voice-handler.js, lines 230-264, with sendNextQuestion (294-300) and
\* getNextQuestion (part_014 93-104, 144-152) up to the first await: the
\* answer is stored under the id at currentQuestionIndex; without an OpenAI
\* key the first remaining question is sent, with one the model is asked
handleSubmitAnswer(session, asked) ==
  IF session.currentQuestionIndex >= Len(InterviewQuestions)
  THEN handleCompleteInterview(session)
  ELSE LET stored == [session EXCEPT
                        !.answers = Append(@,
                           [questionId |->
                              InterviewQuestions[session.currentQuestionIndex + 1],
                            asked |-> asked]),
                        !.currentQuestionIndex = @ + 1]
           remaining == remainingQuestions(stored.answers)
       IN IF stored.currentQuestionIndex >= Len(InterviewQuestions)
          THEN handleCompleteInterview(stored)
          ELSE IF session.hasOpenAI
          THEN [stored EXCEPT !.choosing = @ \cup {remaining}]
          ELSE [stored EXCEPT !.lastSent = remaining[1]]

\* message submit_answer
SubmitAnswer ==
  /\ voice' = handleSubmitAnswer(voice, voice.lastSent)
  /\ UNCHANGED <<workflowVars, proxyVars, editorVars, dns, admin, http, onboarding>>

\* part_014, lines 106-152 and voice-handler.js, lines 302-338: the model
\* has answered; a remaining question it names is sent, otherwise (no match,
\* or an error) the first remaining one or the one at currentQuestionIndex
NextQuestionChosen(remaining, choice, threw) ==
  /\ remaining \in voice.choosing
  /\ choice \in 1..Len(remaining)
  /\ LET answered == [voice EXCEPT !.choosing = @ \ {remaining}]
     IN voice' = IF threw
                 THEN sendQuestion(answered, voice.currentQuestionIndex)
                 ELSE [answered EXCEPT !.lastSent = remaining[choice]]
  /\ UNCHANGED <<workflowVars, proxyVars, editorVars, dns, admin, http, onboarding>>

\* message request_question
RequestQuestion ==
  /\ voice' = sendQuestion(voice, voice.currentQuestionIndex)
  /\ UNCHANGED <<workflowVars, proxyVars, editorVars, dns, admin, http, onboarding>>

\* message start_recording
StartRecording ==
  /\ ~voice.isRecording
  /\ voice' = [voice EXCEPT !.isRecording = TRUE, !.audioBuffer = FALSE]
  /\ UNCHANGED <<workflowVars, proxyVars, editorVars, dns, admin, http, onboarding>>

\* an audio chunk: kept only while recording
AudioChunk ==
  /\ voice.isRecording
  /\ ~voice.audioBuffer
  /\ voice' = [voice EXCEPT !.audioBuffer = TRUE]
  /\ UNCHANGED <<workflowVars, proxyVars, editorVars, dns, admin, http, onboarding>>

\* message stop_recording and processRecording up to the transcribe call
StopRecording ==
  /\ voice.isRecording
  /\ voice' = IF voice.audioBuffer
              THEN [voice EXCEPT !.isRecording = FALSE, !.audioBuffer = FALSE,
                                 !.transcribing = @ \cup {voice.lastSent}]
              ELSE [voice EXCEPT !.isRecording = FALSE]
  /\ UNCHANGED <<workflowVars, proxyVars, editorVars, dns, admin, http, onboarding>>

\* voice-handler.js, lines 201-220: the transcription has settled; a
\* non-empty text is submitted as the answer
Transcribed(asked, hasText) ==
  /\ asked \in voice.transcribing
  /\ LET settled == [voice EXCEPT !.transcribing = @ \ {asked}]
     IN voice' = IF hasText THEN handleSubmitAnswer(settled, asked) ELSE settled
  /\ UNCHANGED <<workflowVars, proxyVars, editorVars, dns, admin, http, onboarding>>

NextVoice ==
  \/ SubmitAnswer
  \/ \E remaining \in voice.choosing, choice \in 1..Len(InterviewQuestions),
        threw \in BOOLEAN :
       NextQuestionChosen(remaining, choice, threw)
  \/ RequestQuestion
  \/ StartRecording
  \/ AudioChunk
  \/ StopRecording
  \/ \E asked \in voice.transcribing, hasText \in BOOLEAN : Transcribed(asked, hasText)

InitIdleServices ==
  /\ dns = [records |-> {}, nextId |-> 1, calls |-> <<>>]
  /\ admin = [a \in AdminCalls |-> IdleAdminCall]
  /\ http = [adminSecret |-> "", handled |-> [h \in AdminRequests |-> NoAnswer]]
  /\ onboarding = [o \in OnboardingRuns |-> IdleOnboarding]
  /\ voice = ConnectedVoice

InitIdleEditor ==
  /\ editorSessions = <<>>
  /\ editorMessages = <<>>
  /\ creates = [c \in CreateCalls |-> IdleCreate]
  /\ sends = [m \in SendCalls |-> IdleSend]

NextEditor ==
  \/ \E c \in CreateCalls, user \in Users, site \in DOMAIN UserSites :
       CreateSessionInsert(c, user, site)
  \/ \E c \in CreateCalls : CreateSessionSystemMessage(c)
  \/ \E m \in SendCalls, user \in Users, session \in 1..Len(editorSessions) :
       SendMessageLoad(m, user, session)
  \/ \E m \in SendCalls : SendMessageSaveUser(m)
  \/ \E m \in SendCalls, throws \in BOOLEAN, reply \in Replies :
       SendMessageChat(m, throws, reply)
  \/ \E m \in SendCalls, wpOk \in BOOLEAN : SendMessageExecute(m, wpOk)
  \/ \E m \in SendCalls : SendMessageSaveAssistant(m)
  \/ \E session \in 1..Len(editorSessions), user \in Users : DeleteSession(session, user)

InitIdleStreams ==
  /\ streams = [r \in Runs |-> NoStream]
  /\ clock = 1

InitIdleWorkflow ==
  /\ config = [cloudflare |-> TRUE, namecheap |-> TRUE, contacts |-> TRUE,
               instawp |-> TRUE]
  /\ wf = [r \in Runs |-> IdleRun]
  /\ InitIdleStreams

InitIdleProxy ==
  /\ tiers = SeededTiers
  /\ sites = <<>>
  /\ requestLog = {}
  /\ pendingLogs = {}
  /\ month = 0
  /\ reqs = [q \in RequestIds |-> NewRequest]

InitWorkflow ==
  /\ config \in [cloudflare : BOOLEAN, namecheap : BOOLEAN, contacts : BOOLEAN,
                 instawp : BOOLEAN]
  /\ wf = [r \in Runs |-> IdleRun]
  /\ InitIdleStreams
  /\ InitIdleProxy
  /\ InitIdleEditor
  /\ InitIdleServices

InitProxy ==
  /\ InitIdleWorkflow
  /\ tiers \in TierTables
  /\ sites = <<>>
  /\ requestLog = {}
  /\ pendingLogs = {}
  /\ month = 0
  /\ reqs = [q \in RequestIds |-> NewRequest]
  /\ InitIdleEditor
  /\ InitIdleServices

InitEditor ==
  /\ InitIdleWorkflow
  /\ InitIdleProxy
  /\ InitIdleEditor
  /\ InitIdleServices

\* the add-domain answers used behind a stream: addresses, or none
StreamMapResponses ==
  {resp \in MapResponses : resp.has_a_records}

InitStream ==
  /\ config \in [cloudflare : BOOLEAN, namecheap : {TRUE}, contacts : {TRUE},
                 instawp : BOOLEAN]
  /\ wf = [r \in Runs |-> IdleRun]
  /\ InitIdleStreams
  /\ InitIdleProxy
  /\ InitIdleEditor
  /\ InitIdleServices

NextStream ==
  \/ \E r \in Runs, domainGiven \in BOOLEAN, keyGiven \in BOOLEAN, reg \in BOOLEAN :
       StreamOpen(r, domainGiven, keyGiven, reg)
  \/ \E r \in Runs : StreamExecute(r)
  \/ \E r \in Runs, throws \in BOOLEAN, a \in Availabilities : CheckingDomain(r, throws, a)
  \/ \E r \in Runs, throws \in BOOLEAN : RegisteringDomain(r, throws)
  \/ \E r \in Runs, throws \in BOOLEAN : CreatingSite(r, throws, TRUE)
  \/ \E r \in Runs, throws \in BOOLEAN : WaitingForSite(r, throws, TRUE)
  \/ \E r \in Runs, throws \in BOOLEAN, resp \in StreamMapResponses :
       MappingDomain(r, throws, resp)
  \/ \E r \in Runs, answers \in ProviderAnswers, zone \in Zones :
       CreatingCloudflareZone(r, answers, zone)
  \/ \E r \in Runs, throws \in BOOLEAN : SettingDnsRecords(r, throws)
  \/ \E r \in Runs, throws \in BOOLEAN : UpdatingNameservers(r, throws)
  \/ \E r \in Runs : ConfiguringSecurity(r)
  \/ \E r \in Runs : StreamFinish(r)
  \/ Tick

\* one streamed run whose client may go away at any moment
NextCancel ==
  \/ \E r \in WorkflowRuns, domainGiven \in BOOLEAN, keyGiven \in BOOLEAN, reg \in BOOLEAN :
       StreamOpen(r, domainGiven, keyGiven, reg)
  \/ \E r \in WorkflowRuns : StreamExecute(r)
  \/ \E r \in WorkflowRuns, throws \in BOOLEAN, a \in Availabilities :
       CheckingDomain(r, throws, a)
  \/ \E r \in WorkflowRuns, throws \in BOOLEAN : RegisteringDomain(r, throws)
  \/ \E r \in WorkflowRuns, throws \in BOOLEAN, hasUrl \in BOOLEAN :
       CreatingSite(r, throws, hasUrl)
  \/ \E r \in WorkflowRuns, throws \in BOOLEAN, hasUrl \in BOOLEAN :
       WaitingForSite(r, throws, hasUrl)
  \/ \E r \in WorkflowRuns, throws \in BOOLEAN, resp \in MapResponses :
       MappingDomain(r, throws, resp)
  \/ \E r \in WorkflowRuns, answers \in ProviderAnswers, zone \in Zones :
       CreatingCloudflareZone(r, answers, zone)
  \/ \E r \in WorkflowRuns, throws \in BOOLEAN : SettingDnsRecords(r, throws)
  \/ \E r \in WorkflowRuns, throws \in BOOLEAN : UpdatingNameservers(r, throws)
  \/ \E r \in WorkflowRuns : ConfiguringSecurity(r)
  \/ \E r \in WorkflowRuns : StreamFinish(r)
  \/ \E r \in WorkflowRuns : ClientDisconnect(r)
  \/ Tick

NextProxy ==
  \/ \E q \in RequestIds, header \in AuthHeaders : ProxyAuthLookup(q, header)
  \/ \E q \in RequestIds : ProxyAuthQuota(q)
  \/ \E q \in RequestIds, body \in RequestBodies : ChatCompletions(q, body)
  \/ \E q \in RequestIds, outcome \in ForwardOutcomes, tokens \in TokenUsages :
       ForwardToProvider(q, outcome, tokens)
  \/ \E row \in pendingLogs : LogInsert(row)
  \/ \E row \in pendingLogs : LogInsertFails(row)
  \/ \E domain \in Domains : RegisterSite(domain)
  \/ \E id \in 1..Len(sites), tier \in {"free", "pro", "platinum"} : UpdateTier(id, tier)
  \/ \E id \in 1..Len(sites), status \in Statuses : UpdateSiteStatus(id, status)
  \/ MonthRollover

\* one client sending requests strictly one after another: a request is
\* sent only when every other request has been answered
NextSerial ==
  \/ \E q \in RequestIds, header \in AuthHeaders :
       /\ \A other \in RequestIds \ {q} : reqs[other].pc \in {"new", "done"}
       /\ ProxyAuthLookup(q, header)
  \/ \E q \in RequestIds : ProxyAuthQuota(q)
  \/ \E q \in RequestIds, body \in RequestBodies : ChatCompletions(q, body)
  \/ \E q \in RequestIds, outcome \in ForwardOutcomes, tokens \in TokenUsages :
       ForwardToProvider(q, outcome, tokens)
  \/ \E row \in pendingLogs : LogInsert(row)
  \/ \E row \in pendingLogs : LogInsertFails(row)
  \/ \E domain \in Domains : RegisterSite(domain)

SpecSerial == InitProxy /\ [][NextSerial]_vars

\* one run of execute for an existing domain, with waitForSiteReady step by step
NextWait ==
  \E r \in WorkflowRuns :
    \/ \E key \in BOOLEAN :
         ExecuteStart(r, "execute", key, FALSE, NoContext, NoContext, FALSE)
    \/ \E throws \in BOOLEAN, hasUrl \in BOOLEAN : CreatingSite(r, throws, hasUrl)
    \/ WaitBegin(r)
    \/ WaitCheck(r)
    \/ \E latency \in RequestLatencies, answer \in SiteAnswers :
         WaitGetSite(r, latency, answer)
    \/ \E latency \in RequestLatencies, reachable \in BOOLEAN :
         WaitProbe(r, latency, reachable)
    \/ WaitSleep(r)
    \/ \E throws \in BOOLEAN, resp \in MapResponses : MappingDomain(r, throws, resp)

\* every request of the loop settles, every timer fires and every
\* continuation is run
WaitFairness ==
  \A r \in WorkflowRuns :
    /\ WF_vars(WaitBegin(r))
    /\ WF_vars(WaitCheck(r))
    /\ WF_vars(\E latency \in RequestLatencies, answer \in SiteAnswers :
                 WaitGetSite(r, latency, answer))
    /\ WF_vars(\E latency \in RequestLatencies, reachable \in BOOLEAN :
                 WaitProbe(r, latency, reachable))
    /\ WF_vars(WaitSleep(r))

SpecWait == InitWorkflow /\ [][NextWait]_vars /\ WaitFairness

InitDns ==
  /\ InitIdleWorkflow
  /\ InitIdleProxy
  /\ InitIdleEditor
  /\ \E present \in SUBSET (1..Len(StartingRecords)) :
       dns = [records |-> {WithId(StartingRecords[i], i) : i \in present},
              nextId |-> Len(StartingRecords) + 1,
              calls |-> <<>>]
  /\ admin = [a \in AdminCalls |-> IdleAdminCall]
  /\ http = [adminSecret |-> "", handled |-> [h \in AdminRequests |-> NoAnswer]]
  /\ onboarding = [o \in OnboardingRuns |-> IdleOnboarding]
  /\ voice = ConnectedVoice

NextDns ==
  \E ipAddresses \in AddressLists, includeWww \in BOOLEAN, deleted \in SUBSET dns.records :
    \E created \in 0..Len(toCreate(DomainName, ipAddresses, includeWww)) :
      SetARecords(ipAddresses, includeWww, deleted, created)

SpecDns == InitDns /\ [][NextDns]_vars

(***************************************************************************)
(* Two runs of execute for one domain at the Cloudflare stages             *)
(* (domain-workflow.js 176-205): getOrCreateZone and setARecords request   *)
(* by request.  Each run has mapped the domain to its own site, so the     *)
(* runs bring their own addresses.  The provider answers with an error,    *)
(* which makeRequest throws (namecheap.js 234-245), when a zone of the     *)
(* name exists already, when the record to delete is gone, and when an     *)
(* identical record exists.                                                *)
(***************************************************************************)
\* aRecordIps of the runs' sites
SiteAddressLists == {<<"1.2.3.4">>, <<"5.6.7.8">>}

IdleZoneCall ==
  [pc |-> "idle", ipAddresses |-> <<>>, includeWww |-> FALSE, listed |-> {},
   next |-> 1]

\* the records of the zone without the provider's ids
Contents(records) ==
  {[type |-> r.type, name |-> r.name, content |-> r.content, proxied |-> r.proxied] :
     r \in records}

\* namecheap.js, lines 255-265 and 290-293: getZone
GetZone(r, ipAddresses, includeWww) ==
  /\ dns.setters[r].pc = "idle"
  /\ dns' = [dns EXCEPT !.setters[r] =
               [@ EXCEPT !.ipAddresses = ipAddresses, !.includeWww = includeWww,
                         !.pc = IF dns.zones = 0 THEN "create_zone" ELSE "list"]]
  /\ UNCHANGED <<workflowVars, proxyVars, editorVars, admin, http, onboarding, voice>>

\* namecheap.js, lines 267-288 and 294-296: createZone
CreateZone(r) ==
  /\ dns.setters[r].pc = "create_zone"
  /\ dns' = IF dns.zones = 0
            THEN [dns EXCEPT !.zones = 1, !.setters[r].pc = "list"]
            ELSE [dns EXCEPT !.setters[r].pc = "failed"]
  /\ UNCHANGED <<workflowVars, proxyVars, editorVars, admin, http, onboarding, voice>>

\* namecheap.js, lines 379-386: listDnsRecords and the toDelete filter
ListRecords(r) ==
  /\ dns.setters[r].pc = "list"
  /\ dns' = [dns EXCEPT !.setters[r] =
               [@ EXCEPT !.listed = toDelete(dns.records, DomainName),
                         !.pc = "delete"]]
  /\ UNCHANGED <<workflowVars, proxyVars, editorVars, admin, http, onboarding, voice>>

\* namecheap.js, lines 388-390: one turn of the delete loop, or its end
DeleteRecord(r) ==
  /\ dns.setters[r].pc = "delete"
  /\ IF dns.setters[r].listed = {}
     THEN dns' = [dns EXCEPT !.setters[r].pc = "create"]
     ELSE \E record \in dns.setters[r].listed :
            dns' = IF record \in dns.records
                   THEN [dns EXCEPT !.records = @ \ {record},
                                    !.setters[r].listed = @ \ {record}]
                   ELSE [dns EXCEPT !.setters[r].pc = "failed"]
  /\ UNCHANGED <<workflowVars, proxyVars, editorVars, admin, http, onboarding, voice>>

\* namecheap.js, lines 392-416: one createDnsRecord request, or the return
CreateRecord(r) ==
  /\ dns.setters[r].pc = "create"
  /\ LET call == dns.setters[r]
         newRecords == toCreate(DomainName, call.ipAddresses, call.includeWww)
     IN dns' = IF call.next > Len(newRecords)
               THEN [dns EXCEPT !.setters[r].pc = "returned"]
               ELSE IF newRecords[call.next] \in Contents(dns.records)
               THEN [dns EXCEPT !.setters[r].pc = "failed"]
               ELSE [dns EXCEPT !.records = @ \cup
                                   {WithId(newRecords[call.next], dns.nextId)},
                                !.nextId = @ + 1,
                                !.setters[r].next = @ + 1]
  /\ UNCHANGED <<workflowVars, proxyVars, editorVars, admin, http, onboarding, voice>>

\* the zone is absent, or exists with no record or with one earlier A record
InitZone ==
  /\ InitIdleWorkflow
  /\ InitIdleProxy
  /\ InitIdleEditor
  /\ \E zones \in {0, 1}, present \in SUBSET {1} :
       /\ zones = 0 => present = {}
       /\ dns = [records |-> {WithId(StartingRecords[i], i) : i \in present},
                 nextId |-> Len(StartingRecords) + 1,
                 calls |-> <<>>,
                 zones |-> zones,
                 setters |-> [r \in Runs |-> IdleZoneCall]]
  /\ admin = [a \in AdminCalls |-> IdleAdminCall]
  /\ http = [adminSecret |-> "", handled |-> [h \in AdminRequests |-> NoAnswer]]
  /\ onboarding = [o \in OnboardingRuns |-> IdleOnboarding]
  /\ voice = ConnectedVoice

NextZone ==
  \E r \in Runs :
    \/ \E ipAddresses \in SiteAddressLists, includeWww \in BOOLEAN :
         GetZone(r, ipAddresses, includeWww)
    \/ CreateZone(r)
    \/ ListRecords(r)
    \/ DeleteRecord(r)
    \/ CreateRecord(r)

SpecZone == InitZone /\ [][NextZone]_vars

\* a session just connected, in a process with or without an OpenAI key
InitVoice ==
  /\ InitIdleWorkflow
  /\ InitIdleProxy
  /\ InitIdleEditor
  /\ dns = [records |-> {}, nextId |-> 1, calls |-> <<>>]
  /\ admin = [a \in AdminCalls |-> IdleAdminCall]
  /\ http = [adminSecret |-> "", handled |-> [h \in AdminRequests |-> NoAnswer]]
  /\ onboarding = [o \in OnboardingRuns |-> IdleOnboarding]
  /\ \E hasOpenAI \in BOOLEAN :
       voice = [ConnectedVoice EXCEPT !.hasOpenAI = hasOpenAI]

SpecVoice == InitVoice /\ [][NextVoice]_vars

NextAdmin ==
  \/ \E domain \in Domains : RegisterSite(domain)
  \/ \E a \in AdminCalls, op \in {"updateTier", "updateSiteStatus"},
        id \in 1..Cardinality(Domains), tier \in TierNames, status \in Statuses :
       AdminCall(a, op, id, tier, status)
  \/ \E a \in AdminCalls : UpdateTierLookup(a)
  \/ \E a \in AdminCalls : UpdateTierWrite(a)
  \/ \E a \in AdminCalls : UpdateSiteStatusWrite(a)

SpecAdmin == InitProxy /\ [][NextAdmin]_vars

InitHttp ==
  /\ InitIdleWorkflow
  /\ InitIdleProxy
  /\ InitIdleEditor
  /\ dns = [records |-> {}, nextId |-> 1, calls |-> <<>>]
  /\ admin = [a \in AdminCalls |-> IdleAdminCall]
  /\ \E secret \in AdminSecrets :
       http = [adminSecret |-> secret, handled |-> [h \in AdminRequests |-> NoAnswer]]
  /\ onboarding = [o \in OnboardingRuns |-> IdleOnboarding]
  /\ voice = ConnectedVoice

NextHttp ==
  \E h \in AdminRequests, route \in AdminRoutes, secret \in HeaderValues,
     domain \in Domains \cup {""}, id \in 1..Cardinality(Domains),
     tier \in TierNames \cup {""}, status \in Statuses \cup {""}, pushOk \in BOOLEAN :
    AdminRequest(h, route, secret, domain, id, tier, status, pushOk)

SpecHttp == InitHttp /\ [][NextHttp]_vars

NextOnboarding ==
  \/ \E o \in SingleRun, keys \in [gemini : BOOLEAN, openai : BOOLEAN],
        scrapeOk \in BOOLEAN, found \in HtmlColorLists :
       ExecuteFlowA(o, keys, scrapeOk, extractColorsFromHtml(found))
  \/ \E o \in SingleRun, keys \in [gemini : BOOLEAN, openai : BOOLEAN],
        answers \in InterviewAnswers, openai \in OpenAiAnswers :
       ExecuteFlowB(o, keys, answers, openai)
  \/ \E o \in SingleRun, skins \in SkinsAnswers, analysis \in Analyses,
        gemini \in GeminiAnswers :
       MatchingTemplate(o, skins, analysis, gemini)
  \/ \E o \in SingleRun : LoadingTemplateCatalog(o)
  \/ \E o \in SingleRun : GeneratingContexts(o)

SpecOnboarding == InitEditor /\ [][NextOnboarding]_vars

\* two onboarding requests served concurrently, without AI keys
NextCatalog ==
  \E o \in OnboardingRuns :
    \/ \E scrapeOk \in BOOLEAN :
         ExecuteFlowA(o, [gemini |-> FALSE, openai |-> FALSE], scrapeOk, <<>>)
    \/ \E answers \in InterviewAnswers :
         ExecuteFlowB(o, [gemini |-> FALSE, openai |-> FALSE], answers,
                      [ok |-> FALSE, brief |-> NoBrief])
    \/ LoadingTemplateCatalog(o)
    \/ \E skins \in SkinsAnswers :
         MatchingTemplate(o, skins, [name |-> "Acme", seoTitle |-> ""],
                          [ok |-> FALSE, slug |-> ""])
    \/ GeneratingContexts(o)

SpecCatalog == InitEditor /\ [][NextCatalog]_vars

SpecWorkflow == InitWorkflow /\ [][NextWorkflow]_vars

\* a run whose progress callback may throw
NextSink ==
  \/ NextWorkflow
  \/ \E r \in WorkflowRuns, onErrorToo \in BOOLEAN : EmitProgressThrows(r, onErrorToo)

SpecSink == InitWorkflow /\ [][NextSink]_vars

SpecStream == InitStream /\ [][NextStream]_vars

SpecCancel == InitStream /\ [][NextCancel]_vars

SpecProxy == InitProxy /\ [][NextProxy]_vars

SpecEditor == InitEditor /\ [][NextEditor]_vars


(***************************************************************************)
(* Properties of the domain workflow                                       *)
(***************************************************************************)
CanonicalSteps ==
  <<"config_validated", "domain_checked", "domain_registered", "site_created",
    "site_ready", "domain_mapped", "cloudflare_zone_created", "dns_records_set",
    "nameservers_updated", "security_configured", "ssl_pending",
    "deployment_applied", "content_generated">>

RegistrationSteps == {"domain_checked", "domain_registered", "nameservers_updated"}

StepIds(run) == [i \in 1..Len(run.steps) |-> run.steps[i].step]

\* the stage a StepRecord belongs to
StageOfStep ==
  [config_validated |-> "validating_config", domain_checked |-> "checking_domain",
   domain_registered |-> "registering_domain", site_created |-> "creating_site",
   site_ready |-> "waiting_for_site", domain_mapped |-> "mapping_domain",
   cloudflare_zone_created |-> "creating_cloudflare_zone",
   dns_records_set |-> "setting_dns_records",
   nameservers_updated |-> "updating_nameservers",
   security_configured |-> "configuring_security",
   ssl_pending |-> "configuring_security",
   deployment_applied |-> "applying_deployment",
   content_generated |-> "generating_content"]

\* the stage a provider operation belongs to
StageOfCall ==
  [checkDomain |-> "checking_domain", registerDomain |-> "registering_domain",
   createSiteFromTemplate |-> "creating_site", waitForSiteReady |-> "waiting_for_site",
   mapDomain |-> "mapping_domain", getOrCreateZone |-> "creating_cloudflare_zone",
   setARecords |-> "setting_dns_records", setCustomNameservers |-> "updating_nameservers",
   configureSecurity |-> "configuring_security",
   applyDeploymentContext |-> "applying_deployment",
   generateContent |-> "generating_content", selectEditor |-> "selecting_editor"]

\* C1 as stated: the step ids are a prefix of the canonical order, from which
\* only the registration-only steps are omitted (when registerNewDomain is false)
C1_CanonicalOrder(run) ==
  SeqFilter(CanonicalSteps,
            Range(CanonicalSteps) \ (IF run.registerNewDomain THEN {} ELSE RegistrationSteps))

C1_PrefixOfCanonicalOrder ==
  \A r \in WorkflowRuns : IsPrefix(StepIds(wf[r]), C1_CanonicalOrder(wf[r]))

\* the canonical order of a run: the registration-only steps are omitted when
\* registerNewDomain is false, and deployment_applied / content_generated are
\* omitted when the run was given no deployment / content context
C1_OrderOfRun(run) ==
  SeqFilter(CanonicalSteps,
            Range(CanonicalSteps)
              \ ((IF run.registerNewDomain THEN {} ELSE RegistrationSteps)
                 \cup (IF run.deploymentContext.present THEN {} ELSE {"deployment_applied"})
                 \cup (IF run.contentContext.present THEN {} ELSE {"content_generated"})))

\* C1 (amended): in every step of every run result.steps only grows at its end,
\* and its step ids are a prefix of the canonical order of that run, where the
\* registration-only steps are omitted when registerNewDomain is false and
\* deployment_applied / content_generated are omitted when the corresponding
\* context was not supplied
C1_StepsAppendOnlyInOrder ==
  [][\A r \in WorkflowRuns :
       /\ IsPrefix(wf[r].steps, wf'[r].steps)
       /\ IsPrefix(StepIds(wf'[r]), C1_OrderOfRun(wf'[r]))]_vars

C1_Witness ==
  \E r \in WorkflowRuns :
    /\ wf[r].pc = "done" /\ wf[r].registerNewDomain
    /\ ~wf[r].deploymentContext.present
    /\ Len(wf[r].steps) = 12
    /\ wf[r].steps[12].step = "content_generated"

\* C2: when a fatal stage has failed, the run has returned with success=false
\* and a non-empty error, every provider operation invoked belongs to that
\* stage or an earlier one, and so does every StepRecord
C2_FatalFailureStopsRun ==
  \A r \in WorkflowRuns :
    wf[r].failedAt # "none" =>
      /\ wf[r].pc = "done"
      /\ wf[r].success = FALSE
      /\ wf[r].error # ""
      /\ \A i \in 1..Len(wf[r].calls) :
           StageIndex(StageOfCall[wf[r].calls[i]]) <= StageIndex(wf[r].failedAt)
      /\ \A i \in 1..Len(wf[r].steps) :
           StageIndex(StageOfStep[wf[r].steps[i].step]) <= StageIndex(wf[r].failedAt)

C2_Witness ==
  \E r \in WorkflowRuns :
    /\ wf[r].failedAt = "setting_dns_records"
    /\ wf[r].method = "executeWithContexts"
    /\ wf[r].deploymentContext.present

\* the add-domain response carries no A-record IP
CarriesNoIps(response) ==
  /\ response.has_a_records => response.a_records = <<>>
  /\ response.has_dns_records => SelectSeq(response.dns_records, IsARecord) = <<>>

\* C8 as stated: once mapDomain has answered with a response that carries no
\* A-record IPs, the run has ended with success=false and the A-record error,
\* and neither getOrCreateZone nor setARecords is ever invoked
C8_NoIpsIsFatal ==
  \A r \in WorkflowRuns :
    ("domain_mapped" \in Range(StepIds(wf[r])) /\ CarriesNoIps(wf[r].mapResponse)) =>
      /\ wf[r].pc = "done"
      /\ wf[r].success = FALSE
      /\ wf[r].error = ARecordError
      /\ "getOrCreateZone" \notin Range(wf[r].calls)
      /\ "setARecords" \notin Range(wf[r].calls)

StepRecordsOf(run, step) == {i \in 1..Len(run.steps) : run.steps[i].step = step}

AllFailed(results) ==
  results # <<>> /\ \A i \in 1..Len(results) : ~results[i].success

ProvisioningSucceeded(run) == "ssl_pending" \in Range(StepIds(run))

AttemptedStages(run) == Range(run.events) \cap Range(Stages)

\* the StepRecords of a stage (ssl_pending is the record of no stage of its own)
StageRecords(run, stage) ==
  {i \in 1..Len(run.steps) :
     run.steps[i].step # "ssl_pending" /\ StageOfStep[run.steps[i].step] = stage}

\* C10 as stated: every attempted stage has exactly one StepRecord; the record
\* of the stage that made the run fail has success=false and an error, and the
\* record of every other attempted stage of execute has success=true
C10_OneRecordPerAttemptedStage ==
  \A r \in WorkflowRuns :
    \A stage \in AttemptedStages(wf[r]) :
      /\ Cardinality(StageRecords(wf[r], stage)) = 1
      /\ \A i \in StageRecords(wf[r], stage) :
           IF stage = wf[r].failedAt
           THEN ~wf[r].steps[i].success /\ wf[r].steps[i].error # ""
           ELSE StageIndex(stage) <= StageIndex("configuring_security")
                  => wf[r].steps[i].success

(***************************************************************************)
(* Properties of the AI proxy                                              *)
(***************************************************************************)
Dispatched(q) == reqs[q].upstream > 0

LogRowsOf(q) == {row \in requestLog : row.req = q}

LogsIssuedFor(q) == LogRowsOf(q) \cup {row \in pendingLogs : row.req = q}

Authenticates(q) ==
  /\ reqs[q].bearer
  /\ KeyWellFormed(reqs[q].token)
  /\ reqs[q].keyStatusAtLookup = "active"

QuotaChecked(q) == reqs[q].site.present /\ reqs[q].pc # "quota"

Rejected429(q) ==
  /\ reqs[q].pc = "done"
  /\ reqs[q].status = 429
  /\ reqs[q].quota.remaining = 0
  /\ reqs[q].upstream = 0
  /\ LogsIssuedFor(q) = {}

\* C4 as stated: if the tokens logged for the site in the current month are
\* at least the site's monthly_token_limit at the time of the quota check,
\* the request is answered 429 with remaining 0, makes no upstream call and
\* gets no log row.
C4_QuotaAgainstCurrentLimit ==
  \A q \in RequestIds :
    (QuotaChecked(q) /\ reqs[q].quota.used >= reqs[q].limitAtCheck) =>
       (Rejected429(q) /\ reqs[q].quota.limit = reqs[q].limitAtCheck)

\* C4: if the tokens logged for the site in the current month, summed at
\* the quota check, are at least the monthly_token_limit of the site row
\* that the request's key lookup returned, the request is answered 429 with
\* usage {used, limit, remaining: 0}, makes no upstream call and gets no log
\* row.
C4_QuotaAgainstLookupLimit ==
  \A q \in RequestIds :
    (QuotaChecked(q) /\ reqs[q].quota.used >= reqs[q].site.monthly_token_limit) =>
       (Rejected429(q) /\ reqs[q].quota.limit = reqs[q].site.monthly_token_limit)

C4_Witness ==
  \E q \in RequestIds :
    /\ reqs[q].status = 429
    /\ reqs[q].quota.used >= reqs[q].site.monthly_token_limit
    /\ reqs[q].quota.used > 0

PolicyChecked(q) == reqs[q].model # ""

\* C5: a request is dispatched only if its model is in the allowed-model
\* list of the site's current tier; a model outside the list, an empty list
\* included, is answered 403 with no upstream call and at most one log row.
C5_ModelPolicy ==
  \A q \in RequestIds :
    /\ Dispatched(q) => reqs[q].model \in reqs[q].allowedAtCheck
    /\ (PolicyChecked(q) /\ reqs[q].model \notin reqs[q].allowedAtCheck) =>
          /\ reqs[q].pc = "done"
          /\ reqs[q].status = 403
          /\ reqs[q].upstream = 0
          /\ Cardinality(LogsIssuedFor(q)) <= 1

(***************************************************************************)
(* Properties of the chat editor                                           *)
(***************************************************************************)
Finished(m) == sends[m].pc \in {"returned", "rejected"}

\* C6: for every assistant reply the parsed action blocks are executed one
\* at a time in reply order; the changes list has exactly one entry per
\* parsed action in that order, success=false with an error for a failed or
\* unknown action, and actions after a failed one are still executed.
C6_OneChangePerAction ==
  \A m \in SendCalls :
    LET actions == parseActions(sends[m].reply)
        changes == sends[m].changes
    IN (Finished(m) /\ Len(actions) > 0) =>
          /\ Len(changes) = Len(actions)
          /\ \A i \in 1..Len(changes) :
                /\ changes[i].block = actions[i].block
                /\ changes[i].type = actions[i].type
                /\ changes[i].type \notin KnownTypes => ~changes[i].success
                /\ ~changes[i].success => changes[i].error # ""

\* C7: whenever a session exists, its messages read in created_at order
\* start with a system message and contain exactly one system message.
C7_SystemMessageFirst ==
  \A id \in 1..Len(editorSessions) :
    LiveSession(id) =>
      LET ms == MessagesOf(id)
      IN /\ Len(ms) > 0
         /\ ms[1].role = "system"
         /\ Cardinality({i \in 1..Len(ms) : ms[i].role = "system"}) = 1

TerminalEvents == {"complete", "error"}

TerminalPositions(run) ==
  {i \in 1..Len(run.events) : run.events[i] \in TerminalEvents}

\* C11: in every run exactly one of the events complete and error is emitted
\* and it is the last progress event of the run, so applying_deployment,
\* generating_content and pushing_content precede complete and nothing is
\* emitted after it.
C11_TerminalEventIsLast ==
  \A r \in WorkflowRuns :
    /\ Cardinality(TerminalPositions(wf[r])) <= 1
    /\ \A i \in TerminalPositions(wf[r]) : i = Len(wf[r].events)
    /\ wf[r].pc = "done" => Cardinality(TerminalPositions(wf[r])) = 1


(***************************************************************************)
(* The provisioning stream                                                 *)
(***************************************************************************)
\* the frames of a response that carry a progress event, in the order written
IsTimed(frame) == frame.timed
TimedFrames(r) == SelectSeq(streams[r].frames, IsTimed)

\* the place of an ISO timestamp in the order of time
Chronology(timestamp) == CHOOSE i \in 1..Len(Instants) : Instants[i] = timestamp

StepsOf(frames) == [i \in 1..Len(frames) |-> frames[i].step]

\* C12: the progress frames a subscriber receives are the events of its own
\* run, in the order the stages emitted them, with non-decreasing
\* timestamps; no frame of another run reaches it.
C12_FramesFollowEmissionOrder ==
  \A r \in Runs :
    /\ \A i \in 1..Len(streams[r].frames) : streams[r].frames[i].run = r
    /\ StepsOf(TimedFrames(r)) = wf[r].events
    /\ LET timed == TimedFrames(r)
       IN \A i \in 1..Len(timed) : \A j \in i..Len(timed) :
            Chronology(timed[i].timestamp) <= Chronology(timed[j].timestamp)

\* two runs stream side by side, each across a tick of the clock, and both succeed
C12_Witness_TwoInterleavedStreams ==
  /\ \A r \in Runs :
       /\ wf[r].pc = "done" /\ wf[r].success
       /\ {TimedFrames(r)[i].timestamp : i \in 1..Len(TimedFrames(r))} = Range(Instants)
  /\ wf["run1"].registerNewDomain /\ ~wf["run2"].registerNewDomain

\* C13: a stream whose run has failed holds exactly one error frame, that
\* frame is the last one, the response is closed after it, and no result
\* frame is written.
C13_FailedStreamEndsWithOneError ==
  \A r \in Runs :
    (streams[r].state = "ended" /\ ~wf[r].success) =>
      LET f == streams[r].frames
      IN /\ Cardinality({i \in 1..Len(f) : f[i].step = "error"}) = 1
         /\ f[Len(f)].step = "error"
         /\ \A i \in 1..Len(f) : f[i].step # "result"

\* C14: once the client has disconnected in the middle of a run, the run
\* starts no provider operation beyond the one in flight, and its last step
\* record is cancelled.
C14_DisconnectCancelsRun ==
  \A r \in WorkflowRuns :
    (streams[r].disconnected /\ streams[r].pcAtDisconnect \notin {"idle", "done"}) =>
      /\ Len(wf[r].calls) <= streams[r].callsAtDisconnect + 1
      /\ wf[r].pc = "done" =>
           /\ wf[r].steps # <<>>
           /\ wf[r].steps[Len(wf[r].steps)].step = "cancelled"

(***************************************************************************)
(* Provider calls                                                          *)
(***************************************************************************)
TransientErrors == {"network", "timeout", "rate_limited", "upstream_failure"}

\* the attempt that settles a request under a policy of at most `limit`
\* attempts that re-attempts after transient errors only
SettlingAttempt(answers, limit) ==
  LET bound == IF Len(answers) < limit THEN Len(answers) ELSE limit
      settled == {i \in 1..bound : answers[i] \notin TransientErrors}
  IN IF settled = {} THEN bound
     ELSE CHOOSE i \in settled : \A j \in settled : i <= j

\* C15: a provider call that meets transient errors is re-attempted, up to 4
\* attempts in all, before its failure reaches the workflow; one transient
\* error followed by a success does not fail the run.
C15_TransientErrorsAreRetried ==
  \A r \in WorkflowRuns :
    wf[r].zoneAnswers # <<>> =>
      /\ wf[r].zoneAttempts = SettlingAttempt(wf[r].zoneAnswers, 4)
      /\ wf[r].zoneAnswers[SettlingAttempt(wf[r].zoneAnswers, 4)] = "ok" =>
           wf[r].failedAt # "creating_cloudflare_zone"

\* the credentials the requested path of run r needs and does not have
MissingCredentials(r) ==
  (IF wf[r].hostKey THEN {} ELSE {"host"})
  \cup (IF config.cloudflare THEN {} ELSE {"dns"})
  \cup (IF wf[r].registerNewDomain /\ ~(config.namecheap /\ config.contacts)
        THEN {"registrar"} ELSE {})

\* C16: a run that lacks a credential its path requires fails at
\* validating_config and invokes no registrar, host or DNS operation.
C16_MissingCredentialMakesNoCall ==
  \A r \in WorkflowRuns :
    (wf[r].pc # "idle" /\ MissingCredentials(r) # {}) =>
      /\ wf[r].failedAt = "validating_config"
      /\ wf[r].calls = <<>>

(***************************************************************************)
(* The registrar and the name servers                                      *)
(***************************************************************************)
\* C17: when the registrar reports the domain unavailable, the run fails
\* having invoked nothing but the availability check (no registerDomain, no
\* createSite, nothing later), and for a premium domain the error text
\* carries the price the registrar reported.
C17_UnavailableDomainStopsRun ==
  \A r \in WorkflowRuns :
    (wf[r].registerNewDomain /\ wf[r].availability.checked
       /\ ~wf[r].availability.available) =>
      /\ wf[r].pc = "done" /\ ~wf[r].success
      /\ wf[r].failedAt = "checking_domain"
      /\ wf[r].calls = <<"checkDomain">>
      /\ (wf[r].availability.premium /\ wf[r].availability.premiumPrice # "null") =>
           wf[r].error =
             "Domain is not available for registration. It's a premium domain priced at $"
               \o wf[r].availability.premiumPrice

\* a run through executeWithContexts stopped by a premium domain priced 1250.00
C17_Witness_PremiumDomain ==
  /\ wf["run1"].method = "executeWithContexts"
  /\ wf["run1"].deploymentContext.present
  /\ wf["run1"].availability.premium
  /\ wf["run1"].availability.premiumPrice = "1250.00"
  /\ wf["run1"].failedAt = "checking_domain"

\* the step records of a run that are named `step` and succeeded
SucceededSteps(run, step) ==
  {i \in 1..Len(run.steps) : run.steps[i].step = step /\ run.steps[i].success}

CreatedBy ==
  [domain |-> "domain_registered", site |-> "site_created",
   zone |-> "cloudflare_zone_created", dns_records |-> "dns_records_set"]

\* C19: a failed run has issued no compensating operation: every call it
\* made is an operation of the forward pipeline, and whatever it registered,
\* created or wrote before the failure is still in place when it returns.
C19_NoRollbackAfterFailure ==
  \A r \in WorkflowRuns :
    (wf[r].pc = "done" /\ ~wf[r].success) =>
      /\ \A i \in 1..Len(wf[r].calls) :
           wf[r].calls[i] \in
             {"checkDomain", "registerDomain", "createSiteFromTemplate",
              "waitForSiteReady", "mapDomain", "getOrCreateZone", "setARecords",
              "setCustomNameservers", "configureSecurity"}
      /\ \A resource \in DOMAIN CreatedBy :
           SucceededSteps(wf[r], CreatedBy[resource]) # {} => resource \in wf[r].effects

\* a run that registered a domain, created a site and a zone, then failed
\* writing the DNS records
C19_Witness_FailureAfterEffects ==
  /\ wf["run1"].pc = "done" /\ ~wf["run1"].success
  /\ wf["run1"].failedAt = "setting_dns_records"
  /\ wf["run1"].effects = {"domain", "site", "zone"}

(***************************************************************************)
(* Waiting for the site                                                    *)
(***************************************************************************)
MaxLatency == CHOOSE l \in RequestLatencies : \A k \in RequestLatencies : k <= l

\* waitForSiteReady of run r has given up waiting
TimedOut(r) == wf[r].wait.pc = "thrown" /\ wf[r].error = NotReadyError

\* what holds of the polling loop in every state: a poll begins only while
\* the budget has not elapsed; while the host has never reported a ready
\* status no probe is made; and a timeout comes within one request and one
\* pause after the budget, leaves the run failed and mapDomain not invoked
WaitWithinBudget ==
  \A r \in WorkflowRuns :
    /\ wf[r].wait.pc = "getSite" => wf[r].wait.elapsed < MaxWaitTime
    /\ wf[r].wait.pc = "probe" => wf[r].wait.phase = "booting"
    /\ TimedOut(r) =>
         /\ wf[r].wait.elapsed >= MaxWaitTime
         /\ wf[r].wait.phase = "provisioning" =>
              wf[r].wait.elapsed < MaxWaitTime + MaxLatency + CheckInterval
         /\ wf[r].pc = "done" /\ ~wf[r].success
         /\ wf[r].failedAt = "waiting_for_site"
         /\ "mapDomain" \notin Range(wf[r].calls)

C21_ReadySiteNeverTimesOut ==
  \A r \in WorkflowRuns :
    /\ wf[r].wait.probeAttempts <= MaxProbeAttempts
    /\ TimedOut(r) => wf[r].wait.phase = "provisioning"

(***************************************************************************)
(* DNS records                                                             *)
(***************************************************************************)
\* a record without the id the provider gave it
Content(record) ==
  [type |-> record.type, name |-> record.name, content |-> record.content,
   proxied |-> record.proxied]

\* how many records of each content a set of records holds
Census(records) ==
  [c \in {Content(r) : r \in records} |->
     Cardinality({r \in records : Content(r) = c})]

\* the census of one proxied A record per listed address for the apex, and
\* one per listed address for www when requested
ExpectedCensus(ipAddresses, includeWww) ==
  LET names == IF includeWww THEN {DomainName, "www." \o DomainName} ELSE {DomainName}
      wanted == {[type |-> "A", name |-> n, content |-> ipAddresses[i], proxied |-> TRUE] :
                   n \in names, i \in 1..Len(ipAddresses)}
  IN [c \in wanted |-> Cardinality({i \in 1..Len(ipAddresses) : ipAddresses[i] = c.content})]

OwnARecords(records) ==
  {r \in records : r.type = "A" /\ r.name \in {DomainName, "www." \o DomainName}}

PassedModelPolicy(q) ==
  reqs[q].pc \in {"forward", "done"} /\ reqs[q].model # "" /\ reqs[q].status # 403

\* C23: a request that passes auth, quota and model policy with a model of no
\* known provider prefix is answered 400 and no upstream call is made.
C23_UnsupportedModelIs400 ==
  \A q \in RequestIds :
    (reqs[q].pc = "done" /\ PassedModelPolicy(q)
       /\ ProviderOf(reqs[q].model) = "unsupported") =>
      /\ reqs[q].status = 400
      /\ reqs[q].upstream = 0

\* the log rows of request q: issued and not yet inserted, and inserted
PendingRows(q) == {row \in pendingLogs : row.req = q}
LoggedRows(q) == {row \in requestLog : row.req = q}

\* C24: a request whose upstream call failed is answered 502, every log row
\* issued for it carries the status the upstream returned, and once its
\* insert is no longer pending exactly one row has been appended for it.
C24_UpstreamFailureLogged ==
  \A q \in RequestIds :
    (reqs[q].pc = "done" /\ reqs[q].upstreamStatus # 0) =>
      /\ reqs[q].status = 502
      /\ \A row \in PendingRows(q) \cup LoggedRows(q) :
           row.response_status = reqs[q].upstreamStatus
      /\ PendingRows(q) = {} => Cardinality(LoggedRows(q)) = 1

\* the rows of proxy_sites for a domain, and those of them that are active
RowsOf(domain) == {i \in 1..Len(sites) : sites[i].domain = domain}
ActiveRowsOf(domain) == {i \in RowsOf(domain) : sites[i].status = "active"}

\* C25 (as stated): every registered domain has exactly one active row.
C25_ExactlyOneActiveRow ==
  \A domain \in Domains :
    RowsOf(domain) # {} => Cardinality(ActiveRowsOf(domain)) = 1

\* C25 (amended): every registered domain has exactly one row, whatever
\* registerSite, updateTier and updateSiteStatus calls were made; so at most
\* one row of a domain is active, and none is once its site is revoked.
C25_OneRowPerDomain ==
  \A domain \in Domains :
    /\ Cardinality(RowsOf(domain)) <= 1
    /\ Cardinality(ActiveRowsOf(domain)) <= 1
    /\ \A i \in RowsOf(domain) :
         sites[i].status # "active" => ActiveRowsOf(domain) = {}

\* a registered site was moved to the pro tier and then revoked
C25_Witness_RevokedSite ==
  \E domain \in Domains :
    /\ Cardinality(RowsOf(domain)) = 1
    /\ \A i \in RowsOf(domain) :
         sites[i].status = "revoked" /\ sites[i].subscription_tier = "pro"


\* The calls whose UPDATE changed the row of site id
AppliedCalls(id) ==
  {a \in AdminCalls : admin[a].applied /\ admin[a].id = id}

\* One operation applied to a row on its own
ApplyAlone(row, call) ==
  IF call.op = "updateTier"
  THEN [row EXCEPT !.subscription_tier = call.tier,
                   !.monthly_token_limit = tiers[call.tier].monthly_token_limit]
  ELSE [row EXCEPT !.status = call.status]

RECURSIVE ApplyInOrder(_, _)
ApplyInOrder(row, order) ==
  IF order = <<>> THEN row
  ELSE ApplyInOrder(ApplyAlone(row, admin[Head(order)]), Tail(order))

\* Every order in which the calls of a set can be taken one at a time
OrdersOf(calls) ==
  {order \in [1..Cardinality(calls) -> calls] :
     \A i, j \in 1..Cardinality(calls) : i # j => order[i] # order[j]}

\* The row as registerSite inserted it
InsertedRow(id) ==
  [sites[id] EXCEPT !.status = "active", !.subscription_tier = "free",
                    !.monthly_token_limit = DefaultMonthlyTokenLimit]

\* C26: concurrent updateTier and updateSiteStatus calls on one site leave the
\* row equal to applying the calls that changed it one at a time in some
\* order to the inserted row, and the row's monthly_token_limit is always the
\* limit of the tier definition named by its subscription_tier.
C26_AdminMutationsSerialised ==
  \A id \in 1..Len(sites) :
    /\ \E order \in OrdersOf(AppliedCalls(id)) :
         sites[id] = ApplyInOrder(InsertedRow(id), order)
    /\ sites[id].subscription_tier \in DOMAIN tiers
    /\ sites[id].monthly_token_limit =
         tiers[sites[id].subscription_tier].monthly_token_limit

\* Two updateTier calls naming different tiers and an updateSiteStatus call
\* have all changed the row of one site
C26_Witness_ThreeCallsOnOneSite ==
  \E a, b, c \in AdminCalls :
    /\ admin[a].op = "updateTier" /\ admin[a].pc = "done" /\ admin[a].applied
    /\ admin[a].tier = "free"
    /\ admin[b].op = "updateTier" /\ admin[b].pc = "done" /\ admin[b].applied
    /\ admin[b].tier = "pro" /\ admin[b].id = admin[a].id
    /\ admin[c].op = "updateSiteStatus" /\ admin[c].applied /\ admin[c].id = admin[a].id
    /\ sites[admin[a].id].subscription_tier = "free"
    /\ sites[admin[a].id].status = "revoked"


\* The admin requests answered so far
Answered == {h \in AdminRequests : http.handled[h].route # ""}

\* C27: an admin request changes a row, pushes a key or returns data only if
\* its x-proxy-admin-secret header equals the configured secret, and with no
\* secret configured every admin request is answered 401.
C27_AdminNeedsSecret ==
  \A h \in Answered :
    LET answer == http.handled[h]
    IN /\ (answer.changed \/ answer.pushed \/ answer.data)
            => (answer.header = http.adminSecret /\ http.adminSecret # "")
       /\ http.adminSecret = ""
            => (answer.status = 401 /\ ~answer.changed /\ ~answer.pushed /\ ~answer.data)
       /\ answer.header # http.adminSecret => answer.status = 401

\* With a secret configured, a request carrying another value was turned
\* away and a request carrying the secret changed a row
C27_Witness_WrongAndRightSecret ==
  /\ http.adminSecret # ""
  /\ \E g, h \in Answered :
       /\ http.handled[g].header \notin {http.adminSecret, Undefined}
       /\ http.handled[g].status = 401
       /\ http.handled[h].header = http.adminSecret /\ http.handled[h].changed


\* The rows of a session that one sendMessage call inserted, in created_at order
RowsInsertedBy(m) ==
  SelectSeq(MessagesOf(sends[m].session), LAMBDA row : row.call = m)

\* C28: a sendMessage call that has returned inserted exactly one user
\* message and after it exactly one assistant message; the assistant row's
\* metadata.changes is the changes list the call returned, and the metadata
\* is null when that list is empty.  (Rows are read while the session exists.)
C28_OneUserThenOneAssistant ==
  \A m \in SendCalls :
    (sends[m].pc = "returned" /\ LiveSession(sends[m].session)) =>
      LET rows == RowsInsertedBy(m)
      IN /\ Len(rows) = 2
         /\ rows[1].role = "user" /\ rows[1].metadata.null
         /\ rows[2].role = "assistant"
         /\ rows[2].metadata.null = (sends[m].changes = <<>>)
         /\ rows[2].metadata.changes = sends[m].changes

\* Two calls on one session have returned, interleaved: one applied changes
\* and the other none
C28_Witness_TwoCallsOneSession ==
  \E m, n \in SendCalls :
    /\ m # n /\ sends[m].session = sends[n].session
    /\ sends[m].pc = "returned" /\ sends[n].pc = "returned"
    /\ LiveSession(sends[m].session)
    /\ sends[m].changes # <<>> /\ sends[n].changes = <<>>
    /\ LET ms == MessagesOf(sends[m].session)
       IN \E i \in 1..(Len(ms) - 1) :
            ms[i].role = "user" /\ ms[i + 1].role = "user"


(***************************************************************************)
(* Properties of the onboarding workflow                                   *)
(***************************************************************************)
Emitted(run, step) == \E i \in 1..Len(run.events) : run.events[i] = step

ValidationErrors(run) ==
  validateDeploymentContext(run.deploymentContext)
    \o validateContentContext(run.contentContext)

\* C29: an onboarding run of either flow returns success=true and emits
\* complete only if both of its contexts pass validation; when a context it
\* built fails validation the run returns success=false and its error is the
\* deployment errors followed by the content errors, joined.
C29_SuccessOnlyIfContextsValid ==
  \A o \in OnboardingRuns :
    LET run == onboarding[o]
    IN /\ (run.success \/ Emitted(run, "complete")) =>
            /\ run.pc = "done"
            /\ ValidationErrors(run) = <<>>
       /\ (run.pc = "done" /\ ~run.deploymentContext.null /\ ValidationErrors(run) # <<>>) =>
            /\ ~run.success
            /\ ~Emitted(run, "complete")
            /\ run.error = JoinErrors(ValidationErrors(run))

\* A copy run ended with an invalid colour and no business name: both
\* validations failed
C29_Witness_BothContextsInvalid ==
  \E o \in OnboardingRuns :
    /\ onboarding[o].pc = "done" /\ onboarding[o].flow = "copy"
    /\ validateDeploymentContext(onboarding[o].deploymentContext) # <<>>
    /\ validateContentContext(onboarding[o].contentContext) # <<>>
    /\ ~onboarding[o].deploymentContext.null
    /\ onboarding[o].error =
         "Primary color must be a valid hex color (e.g., #667eea), Business name is required"


\* the conditions under which template selection is said to fall back
SelectionDegraded(run) ==
  \/ run.skins \in {"unreachable", "not_an_array"}
  \/ (~run.keys.gemini /\ ~run.keys.openai)
  \/ run.matcher = "threw"

\* C30: template selection never fails an onboarding run: with the catalog
\* endpoint unreachable, the AI keys absent or the matcher call failing, a
\* run that reached template matching gets past it with a templateMatch
\* whose slug is non-empty.
C30_TemplateSelectionNeverFails ==
  \A o \in OnboardingRuns :
    LET run == onboarding[o]
    IN (run.pc \in {"generating", "done"} /\ run.skins # "" /\ SelectionDegraded(run)) =>
          /\ ~run.templateMatch.null
          /\ run.templateMatch.slug # ""
          /\ \E i \in 1..Len(run.steps) : run.steps[i] = "template_matched"


\* a branding colour that is absent or # and six hex digits
ColorWellFormed(color) == color = "" \/ IsHexColor(color)

\* C31: every deployment context an onboarding run stores in its result,
\* whether the run succeeds or not, has a primaryColor and a secondaryColor
\* that are absent or # followed by six hex digits.
C31_BrandingColorsAreHex ==
  \A o \in OnboardingRuns :
    ~onboarding[o].deploymentContext.null =>
      /\ ColorWellFormed(onboarding[o].deploymentContext.primaryColor)
      /\ ColorWellFormed(onboarding[o].deploymentContext.secondaryColor)


\* C32: the contexts a voice run builds from its brief, whether the brief
\* comes from the model or from the answers and whatever its
\* businessInfo.name, have a non-empty template slug and a non-empty
\* business name.
C32_ContextsFromBriefAreNamed ==
  \A o \in OnboardingRuns :
    (onboarding[o].flow = "voice" /\ ~onboarding[o].deploymentContext.null) =>
      /\ onboarding[o].deploymentContext.slug # ""
      /\ ~onboarding[o].contentContext.null
      /\ onboarding[o].contentContext.name # ""


\* the runs whose catalog fetch from the base site is in flight
FetchingCatalog == {o \in OnboardingRuns : onboarding[o].pc = "fetching"}

\* C33: across concurrent onboarding runs at most one template-catalog
\* fetch from the base site is in flight at any time.
C33_SingleCatalogFetchInFlight == Cardinality(FetchingCatalog) <= 1


\* total_tokens of the 200 responses the client has received for a site
ReportedUsage(siteId) ==
  SumTokens({[req |-> q, total_tokens |-> reqs[q].usage] :
               q \in {p \in RequestIds : /\ reqs[p].pc = "done"
                                         /\ reqs[p].status = 200
                                         /\ reqs[p].site.id = siteId}})

\* C34: in a strictly sequential series of requests for one site, no
\* request is dispatched upstream once the total_tokens of the earlier
\* responses of the month sum to at least the site's limit.
C34_SequentialUsageVisibleToQuota ==
  [][\A q \in RequestIds :
       reqs'[q].upstream > reqs[q].upstream =>
         ReportedUsage(reqs[q].site.id) <
           sites[reqs[q].site.id].monthly_token_limit]_vars


\* no sendMessage call is between its first and its last statement
NoSendInFlight ==
  \A m \in SendCalls : sends[m].pc \in {"idle", "rejected", "returned"}

\* every user message of the session is directly followed by an assistant
\* message
UserTurnsAnswered(id) ==
  LET transcript == MessagesOf(id)
  IN \A i \in 1..Len(transcript) :
       transcript[i].role = "user" =>
         /\ i < Len(transcript)
         /\ transcript[i + 1].role = "assistant"

\* C35: a sendMessage call that fails leaves the persisted transcript
\* unchanged, so once the calls have ended every user message of a session
\* is directly followed by an assistant message.
C35_FailedSendLeavesTranscript ==
  NoSendInFlight =>
    \A id \in 1..Len(editorSessions) : LiveSession(id) => UserTurnsAnswered(id)


\* the user whose call inserted a message row
CallerOf(row) ==
  IF row.call \in CreateCalls THEN creates[row.call].user ELSE sends[row.call].user

\* the sendMessage calls that have passed the session and site lookup
PastLookup(m) ==
  sends[m].pc \in {"save_user", "chat", "execute", "save_assistant", "returned"}

\* C36: with a user's id no call reads, extends or deletes a session created
\* by another user, or executes actions against another user's site.
C36_SessionsIsolatedByUser ==
  /\ \A id \in 1..Len(editorSessions) :
       LET owner == editorSessions[id].user_id
       IN /\ \A user \in Users \ {owner}, site \in DOMAIN UserSites :
               /\ getSession(id, user).null
               /\ id \notin listSessions(user, site)
          /\ \A i \in 1..Len(editorMessages) :
               editorMessages[i].session_id = id => CallerOf(editorMessages[i]) = owner
          /\ ~editorSessions[id].live => editorSessions[id].deletedBy = owner
          /\ UserSites[editorSessions[id].site_id].user_id = owner
  /\ \A m \in SendCalls :
       (PastLookup(m) \/ Len(sends[m].changes) > 0) =>
         /\ editorSessions[sends[m].session].user_id = sends[m].user
         /\ UserSites[editorSessions[sends[m].session].site_id].user_id = sends[m].user

\* a user's call on another user's live session was refused, while the
\* owner's call on it executed an action and returned
C36_Witness_ForeignCallRefused ==
  \E m, n \in SendCalls :
    /\ sends[m].pc = "rejected"
    /\ LiveSession(sends[m].session)
    /\ editorSessions[sends[m].session].user_id # sends[m].user
    /\ sends[n].pc = "returned"
    /\ sends[n].session = sends[m].session
    /\ Len(sends[n].changes) > 0
    /\ ~getSession(sends[n].session, sends[n].user).null


\* the run was ended by an exception of the progress callback: the stages
\* after the event were not run
CutShortBySink(run) == run.pc = "done" /\ run.error = SinkError

\* C37: a progress sink that throws on some event changes neither the
\* provider operations the run performs nor its StepRecords, and execute
\* still resolves with a result instead of rejecting.
C37_ThrowingSinkIsHarmless ==
  \A r \in WorkflowRuns :
    /\ wf[r].pc # "rejected"
    /\ ~CutShortBySink(wf[r])


\* the A records of the apex and of www that the zone holds
ZoneARecords == Contents(toDelete(dns.records, DomainName))

\* the records one run writes: one per address for each of its names
WrittenBy(call) ==
  LET newRecords == toCreate(DomainName, call.ipAddresses, call.includeWww)
  IN {newRecords[i] : i \in 1..Len(newRecords)}

\* C38: when two concurrent runs for one domain both succeed, one zone
\* exists and its A records are exactly those written by one of the runs,
\* with no duplicate, missing or mixed record.
C38_ConcurrentRunsLeaveOneRecordSet ==
  (\A r \in Runs : dns.setters[r].pc = "returned") =>
    /\ dns.zones = 1
    /\ \E r \in Runs : ZoneARecords = WrittenBy(dns.setters[r])
    /\ Cardinality(toDelete(dns.records, DomainName)) = Cardinality(ZoneARecords)


\* C39: every stored answer is recorded under the id of the question that
\* was sent last before the answer arrived, whatever the order of answers,
\* recordings and question requests.
C39_AnswerStoredUnderAskedQuestion ==
  \A i \in 1..Len(voice.answers) :
    voice.answers[i].questionId = voice.answers[i].asked

=============================================================================
